---- MODULE Spec2Model ----
(***************************************************************************)
(* A model of the voxel world of ndrcraft (src/src/voxel.rs): the          *)
(* coordinate mapper, the voxel store with its per-cell face flags, the    *)
(* face update done by World::set_voxel and the vertex list built by       *)
(* World::generate_mesh.                                                    *)
(***************************************************************************)
EXTENDS Integers, Sequences, FiniteSets, TLC

VARIABLES
    size,             \* World::size, <<width, height, depth>>
    origin_offset,    \* World::origin_offset, [x, y, z]
    max_tiles,        \* World::max_tiles
    voxel_data,       \* World::voxel_data, a function 0..len-1 -> VoxelData
    mesh_vertices,    \* World::mesh.vertices
    mesh_submeshes,   \* World::mesh.submeshes, the index list of each submesh
    mesh_buffer_info, \* World::mesh.buffer_info
    mesh_buffer,      \* World::mesh.buffer: its size and the writes of the last flush
    texture,          \* World::texture: its size and the writes issued to it
    overflow_checks,  \* build profile: TRUE when integer overflow panics
    iter,             \* World::generate_mesh under way: the WorldIterator and staging
    renderer,         \* the mesh Renderer: its registries and its queue of draw states
    last,             \* the last call made on the world and what it returned
    ops               \* number of calls made on the world so far

vars == <<size, origin_offset, max_tiles, voxel_data, mesh_vertices,
          mesh_submeshes, mesh_buffer_info, mesh_buffer, texture,
          overflow_checks, iter, renderer, last, ops>>

----------------------------------------------------------------------------
(* Bounds of the model *)

\* number of calls made on one world
MaxOps == 4
\* largest dimension of the worlds of the coordinate-mapper specification
MaxDim == 3
\* number of calls made on one world of the atlas specification
MaxAtlasOps == 3
\* the number of calls made on a world of the direction-order specification
MaxOrderOps == 3
\* the number of calls made on a world of the scanning specification
MaxScanOps == 3
\* the number of resizes and flushes of the mesh-buffer specification
MaxBufferOps == 6
\* the number of calls made on the renderer and its mesh
MaxRenderOps == 4

(* Program constants *)

I32_MAX == 2147483647
I32_MIN == -I32_MAX - 1
FACE_MAX_COUNT == 6

----------------------------------------------------------------------------
(* Voxel, Face, Faces *)

Void == [tag |-> "Void"]
Tile(tile_index) == [tag |-> "Tile", index |-> tile_index]

IsTile(voxel) == voxel.tag = "Tile"

\* Face::from_index
from_index(index) ==
    CASE index = 0 -> "PosX"
      [] index = 1 -> "NegX"
      [] index = 2 -> "PosY"
      [] index = 3 -> "NegY"
      [] index = 4 -> "PosZ"
      [] index = 5 -> "NegZ"

AllFaces == {from_index(i) : i \in 0..(FACE_MAX_COUNT - 1)}

\* Face::opposite
opposite(face) ==
    CASE face = "PosX" -> "NegX"
      [] face = "NegX" -> "PosX"
      [] face = "PosY" -> "NegY"
      [] face = "NegY" -> "PosY"
      [] face = "PosZ" -> "NegZ"
      [] face = "NegZ" -> "PosZ"

Offset3d(px, py, pz) == [x |-> px, y |-> py, z |-> pz]

\* Face::get_adjacent_voxel_position
get_adjacent_voxel_position(face) ==
    CASE face = "PosX" -> Offset3d(1, 0, 0)
      [] face = "NegX" -> Offset3d(-1, 0, 0)
      [] face = "PosY" -> Offset3d(0, 1, 0)
      [] face = "NegY" -> Offset3d(0, -1, 0)
      [] face = "PosZ" -> Offset3d(0, 0, 1)
      [] face = "NegZ" -> Offset3d(0, 0, -1)

\* impl From<Face> for Faces: the bit of the u8 mask that stands for a face
FacesFrom(face) ==
    CASE face = "PosX" -> 1
      [] face = "NegX" -> 2
      [] face = "PosY" -> 4
      [] face = "NegY" -> 8
      [] face = "PosZ" -> 16
      [] face = "NegZ" -> 32

\* Faces::empty
FacesEmpty == 0

\* Faces::contains, for a single-bit argument
FacesContains(faces, bit) == (faces \div bit) % 2 = 1

\* Faces::insert, for a single-bit argument
FacesInsert(faces, bit) == IF FacesContains(faces, bit) THEN faces ELSE faces + bit

\* Faces::remove, for a single-bit argument
FacesRemove(faces, bit) == IF FacesContains(faces, bit) THEN faces - bit ELSE faces

\* VoxelData::default
VoxelDataDefault == [voxel |-> Void, faces |-> FacesEmpty]

----------------------------------------------------------------------------
(* 32-bit arithmetic *)

\* a - b leaves the i32 range (above, below)
SubOverflowsAbove(a, b) == b < 0 /\ a > I32_MAX + b
SubOverflowsBelow(a, b) == b > 0 /\ a < I32_MIN + b
SubOverflows(a, b) == SubOverflowsAbove(a, b) \/ SubOverflowsBelow(a, b)

\* i32::wrapping_sub: a - b reduced modulo 2^32 into the i32 range
WrappingSub(a, b) ==
    IF SubOverflowsAbove(a, b) THEN ((a - I32_MAX) + (I32_MIN - b)) - 1
    ELSE IF SubOverflowsBelow(a, b) THEN ((a - I32_MIN) + (I32_MAX - b)) + 1
    ELSE a - b

\* a + b leaves the i32 range (above, below)
AddOverflowsAbove(a, b) == b > 0 /\ a > I32_MAX - b
AddOverflowsBelow(a, b) == b < 0 /\ a < I32_MIN - b
AddOverflows(a, b) == AddOverflowsAbove(a, b) \/ AddOverflowsBelow(a, b)

\* i32::wrapping_add
WrappingAdd(a, b) ==
    IF AddOverflowsAbove(a, b) THEN ((a - I32_MAX) + (I32_MIN + b)) - 1
    ELSE IF AddOverflowsBelow(a, b) THEN ((a - I32_MIN) + (I32_MAX + b)) + 1
    ELSE a + b

\* `(n as u32) >= bound` for an i32 n and a u32 bound <= I32_MAX: a negative n
\* becomes n + 2^32 >= 2^31, which is above every such bound
U32Ge(n, bound) == n < 0 \/ n >= bound

\* A u32 is written as the i32 that has the same 32 bits: 0 .. 2^31 - 1 stand
\* for themselves and 2^31 .. 2^32 - 1 are the negative numbers, so u32::MAX
\* is -1.  Wrapping addition is the same on both readings of the bits.
U32_MAX == -1

\* a < b as u32
U32Lt(a, b) == IF (a < 0) = (b < 0) THEN a < b ELSE b < 0

\* a + b leaves the u32 range: the wrapped sum is below an operand
U32AddOverflows(a, b) == U32Lt(WrappingAdd(a, b), a)

\* the four bytes of a u32, the lowest first
U32Bytes(a) == [k \in 0..3 |-> (a \div (256 ^ k)) % 256]

\* the u32 that has the given four bytes
U32FromBytes(b0, b1, b2, b3) ==
    (IF b3 >= 128 THEN b3 - 256 ELSE b3) * (256 ^ 3) + b2 * (256 ^ 2) + b1 * 256 + b0

\* a * b as u32 values, by long multiplication on the bytes: the product
\* reduced modulo 2^32 and whether the product leaves the u32 range
U32Mul(a, b) ==
    LET x == U32Bytes(a)
        y == U32Bytes(b)
        c0 == x[0] * y[0]
        c1 == x[0] * y[1] + x[1] * y[0] + (c0 \div 256)
        c2 == x[0] * y[2] + x[1] * y[1] + x[2] * y[0] + (c1 \div 256)
        c3 == x[0] * y[3] + x[1] * y[2] + x[2] * y[1] + x[3] * y[0] + (c2 \div 256)
        high == (c3 \div 256) + x[1] * y[3] + x[2] * y[2] + x[3] * y[1]
                + x[2] * y[3] + x[3] * y[2] + x[3] * y[3]
    IN  [value |-> U32FromBytes(c0 % 256, c1 % 256, c2 % 256, c3 % 256),
         overflows |-> high > 0]

\* u32::wrapping_mul
U32WrappingMul(a, b) == U32Mul(a, b).value

\* a * b leaves the u32 range
U32MulOverflows(a, b) == U32Mul(a, b).overflows

----------------------------------------------------------------------------
(* Coordinate mapper *)

Width(sz) == sz[1]
Height(sz) == sz[2]
Depth(sz) == sz[3]
Volume(sz) == Width(sz) * Height(sz) * Depth(sz)

\* World::new, origin_offset = -(size / 2) per axis
OriginOffset(sz) ==
    Offset3d(-(Width(sz) \div 2), -(Height(sz) \div 2), -(Depth(sz) \div 2))

\* get_voxel_index_unchecked with the row stride taken from the height
get_voxel_index_unchecked_stride(sz, origin, position) ==
    LET x == position.x - origin.x
        y == position.y - origin.y
        z == position.z - origin.z
    IN  z * Width(sz) * Height(sz) + y * Height(sz) + x

\* World::get_voxel_index_unchecked
get_voxel_index_unchecked(sz, origin, position) ==
    LET x == position.x - origin.x
        y == position.y - origin.y
        z == position.z - origin.z
    IN  z * Width(sz) * Height(sz) + y * Width(sz) + x

\* World::get_voxel_index.  The three subtractions are i32 subtractions: one
\* that leaves the i32 range panics when overflow checks are on and wraps
\* otherwise.
get_voxel_index(sz, origin, position, checks) ==
    LET dx == WrappingSub(position.x, origin.x)
        dy == WrappingSub(position.y, origin.y)
        dz == WrappingSub(position.z, origin.z)
    IN  IF checks /\ (\/ SubOverflows(position.x, origin.x)
                      \/ SubOverflows(position.y, origin.y)
                      \/ SubOverflows(position.z, origin.z))
        THEN [kind |-> "Panic"]
        ELSE IF U32Ge(dx, Width(sz)) \/ U32Ge(dy, Height(sz)) \/ U32Ge(dz, Depth(sz))
        THEN [kind |-> "None"]
        ELSE [kind |-> "Some",
              index |-> get_voxel_index_unchecked(sz, origin, position)]

\* get_voxel_position_unchecked with the half sizes rounded up
get_voxel_position_unchecked_ceil(sz, index) ==
    LET origin_x == (Width(sz) + 1) \div 2
        origin_y == (Height(sz) + 1) \div 2
        origin_z == (Depth(sz) + 1) \div 2
        x == index % Width(sz)
        y == (index \div Width(sz)) % Height(sz)
        z == index \div (Width(sz) * Height(sz))
    IN  Offset3d(x - origin_x, y - origin_y, z - origin_z)

\* World::get_voxel_position_unchecked
get_voxel_position_unchecked(sz, index) ==
    LET origin_x == Width(sz) \div 2
        origin_y == Height(sz) \div 2
        origin_z == Depth(sz) \div 2
        x == index % Width(sz)
        y == (index \div Width(sz)) % Height(sz)
        z == index \div (Width(sz) * Height(sz))
    IN  Offset3d(x - origin_x, y - origin_y, z - origin_z)

\* World::get_voxel_position; len is voxel_data.len()
get_voxel_position(sz, len, index) ==
    IF index >= len
    THEN [kind |-> "None"]
    ELSE [kind |-> "Some", position |-> get_voxel_position_unchecked(sz, index)]

----------------------------------------------------------------------------
(* Voxel store *)

\* the fields of World that the voxel operations read
World(sz, origin, mt, data) ==
    [size |-> sz, origin_offset |-> origin, max_tiles |-> mt, voxel_data |-> data]

\* World::new: voxel_data = vec![VoxelData::default(); width * height * depth]
NewVoxelData(sz) == [i \in 0..(Volume(sz) - 1) |-> VoxelDataDefault]

\* voxel_data.len()
DataLen(data) == Cardinality(DOMAIN data)

\* World::get_voxel_data
get_voxel_data(w, position, checks) ==
    LET found == get_voxel_index(w.size, w.origin_offset, position, checks)
    IN  IF found.kind = "Some"
        THEN IF found.index \in DOMAIN w.voxel_data
             THEN [kind |-> "Some", data |-> w.voxel_data[found.index]]
             ELSE [kind |-> "None"]
        ELSE found

\* World::get_voxel
get_voxel(w, position, checks) ==
    LET found == get_voxel_data(w, position, checks)
    IN  IF found.kind = "Some"
        THEN [kind |-> "Some", voxel |-> found.data.voxel]
        ELSE found

\* World::set_voxel, the position of the voxel adjacent to a face; the
\* additions are i32 additions
other_position(position, face) ==
    LET adjacent == get_adjacent_voxel_position(face)
    IN  Offset3d(WrappingAdd(position.x, adjacent.x),
                 WrappingAdd(position.y, adjacent.y),
                 WrappingAdd(position.z, adjacent.z))

\* one of the additions of other_position leaves the i32 range
other_position_overflows(position, face) ==
    LET adjacent == get_adjacent_voxel_position(face)
    IN  \/ AddOverflows(position.x, adjacent.x)
        \/ AddOverflows(position.y, adjacent.y)
        \/ AddOverflows(position.z, adjacent.z)

\* match_faces with the (Tile, Tile) arm toggling the neighbour's flag
match_faces_toggle(data, target_index, other_index, face, target_voxel, other_voxel) ==
    CASE ~IsTile(target_voxel) /\ ~IsTile(other_voxel) -> data
      [] ~IsTile(target_voxel) /\ IsTile(other_voxel) ->
            [data EXCEPT ![other_index].faces =
                FacesInsert(@, FacesFrom(opposite(face)))]
      [] IsTile(target_voxel) /\ ~IsTile(other_voxel) ->
            [data EXCEPT ![target_index].faces =
                FacesInsert(@, FacesFrom(face))]
      [] IsTile(target_voxel) /\ IsTile(other_voxel) ->
            [data EXCEPT ![other_index].faces =
                IF FacesContains(@, FacesFrom(opposite(face)))
                THEN FacesRemove(@, FacesFrom(opposite(face)))
                ELSE FacesInsert(@, FacesFrom(opposite(face)))]

\* match_faces with the (Tile, Tile) arm leaving the neighbour's flag alone
match_faces_keep(data, target_index, other_index, face, target_voxel, other_voxel) ==
    CASE ~IsTile(target_voxel) /\ ~IsTile(other_voxel) -> data
      [] ~IsTile(target_voxel) /\ IsTile(other_voxel) ->
            [data EXCEPT ![other_index].faces =
                FacesInsert(@, FacesFrom(opposite(face)))]
      [] IsTile(target_voxel) /\ ~IsTile(other_voxel) ->
            [data EXCEPT ![target_index].faces =
                FacesInsert(@, FacesFrom(face))]
      [] IsTile(target_voxel) /\ IsTile(other_voxel) -> data

\* match_faces with the (Void, Tile) arm leaving the neighbour's flag alone
match_faces_no_reveal(data, target_index, other_index, face, target_voxel, other_voxel) ==
    CASE ~IsTile(target_voxel) /\ ~IsTile(other_voxel) -> data
      [] ~IsTile(target_voxel) /\ IsTile(other_voxel) -> data
      [] IsTile(target_voxel) /\ ~IsTile(other_voxel) ->
            [data EXCEPT ![target_index].faces =
                FacesInsert(@, FacesFrom(face))]
      [] IsTile(target_voxel) /\ IsTile(other_voxel) ->
            [data EXCEPT ![other_index].faces =
                FacesRemove(@, FacesFrom(opposite(face)))]

\* match_faces with the (Tile, Tile) arm removing the neighbour's flag of the
\* face itself in place of the opposite one
match_faces_same_face(data, target_index, other_index, face, target_voxel, other_voxel) ==
    CASE ~IsTile(target_voxel) /\ ~IsTile(other_voxel) -> data
      [] ~IsTile(target_voxel) /\ IsTile(other_voxel) ->
            [data EXCEPT ![other_index].faces =
                FacesInsert(@, FacesFrom(opposite(face)))]
      [] IsTile(target_voxel) /\ ~IsTile(other_voxel) ->
            [data EXCEPT ![target_index].faces =
                FacesInsert(@, FacesFrom(face))]
      [] IsTile(target_voxel) /\ IsTile(other_voxel) ->
            [data EXCEPT ![other_index].faces =
                FacesRemove(@, FacesFrom(face))]

\* World::set_voxel, the match on (target_voxel, other_voxel) for one face
match_faces(data, target_index, other_index, face, target_voxel, other_voxel) ==
    CASE ~IsTile(target_voxel) /\ ~IsTile(other_voxel) -> data
      [] ~IsTile(target_voxel) /\ IsTile(other_voxel) ->
            [data EXCEPT ![other_index].faces =
                FacesInsert(@, FacesFrom(opposite(face)))]
      [] IsTile(target_voxel) /\ ~IsTile(other_voxel) ->
            [data EXCEPT ![target_index].faces =
                FacesInsert(@, FacesFrom(face))]
      [] IsTile(target_voxel) /\ IsTile(other_voxel) ->
            [data EXCEPT ![other_index].faces =
                FacesRemove(@, FacesFrom(opposite(face)))]

\* set_face with the out-of-bounds arm leaving the target's mask alone
set_face_no_boundary(w, data, target_index, position, voxel, face, checks) ==
    LET other == other_position(position, face)
        found == get_voxel_index(w.size, w.origin_offset, other, checks)
    IN  IF (checks /\ other_position_overflows(position, face))
           \/ found.kind = "Panic"
        THEN [data |-> data, panic |-> TRUE]
        ELSE IF found.kind = "None"
        THEN [data |-> data, panic |-> FALSE]
        ELSE [data |-> match_faces(data, target_index, found.index, face,
                                   voxel, data[found.index].voxel),
              panic |-> FALSE]

\* set_face with the out-of-bounds arm assigning the flag of the face to the
\* target's mask in place of inserting it
set_face_assign(w, data, target_index, position, voxel, face, checks) ==
    LET other == other_position(position, face)
        found == get_voxel_index(w.size, w.origin_offset, other, checks)
    IN  IF (checks /\ other_position_overflows(position, face))
           \/ found.kind = "Panic"
        THEN [data |-> data, panic |-> TRUE]
        ELSE IF found.kind = "None"
        THEN [data |-> [data EXCEPT ![target_index].faces = FacesFrom(face)],
              panic |-> FALSE]
        ELSE [data |-> match_faces(data, target_index, found.index, face,
                                   voxel, data[found.index].voxel),
              panic |-> FALSE]

\* World::set_voxel, the body of the loop over the faces, for one face.
\* Gives the voxel data after the iteration and whether it panicked.
set_face(w, data, target_index, position, voxel, face, checks) ==
    LET other == other_position(position, face)
        found == get_voxel_index(w.size, w.origin_offset, other, checks)
    IN  IF (checks /\ other_position_overflows(position, face))
           \/ found.kind = "Panic"
        THEN [data |-> data, panic |-> TRUE]
        ELSE IF found.kind = "None"
        THEN [data |-> [data EXCEPT ![target_index].faces =
                            FacesInsert(@, FacesFrom(face))],
              panic |-> FALSE]
        ELSE [data |-> match_faces(data, target_index, found.index, face,
                                   voxel, data[found.index].voxel),
              panic |-> FALSE]

\* World::set_voxel, the loop `for face_index in 0..Face::MAX_COUNT`
RECURSIVE set_faces(_, _, _, _, _, _, _)
set_faces(w, data, target_index, position, voxel, face_index, checks) ==
    IF face_index >= FACE_MAX_COUNT
    THEN [data |-> data, panic |-> FALSE]
    ELSE LET step == set_face(w, data, target_index, position, voxel,
                              from_index(face_index), checks)
         IN  IF step.panic
             THEN step
             ELSE set_faces(w, step.data, target_index, position, voxel,
                            face_index + 1, checks)

\* tile_index_invalid that lets every tile index through
tile_index_invalid_never(voxel, mt) == IsTile(voxel) /\ voxel.index < 0

\* tile_index_invalid with > in place of >=
tile_index_invalid_above(voxel, mt) == IsTile(voxel) /\ voxel.index > mt

\* World::set_voxel, the check of the tile index against max_tiles
tile_index_invalid(voxel, mt) == IsTile(voxel) /\ voxel.index >= mt

\* store_voxel that leaves the stored voxel as it was
store_voxel_skip(data, target_index, voxel) == data

\* World::set_voxel, `self.voxel_data[target_index].voxel = voxel`
store_voxel(data, target_index, voxel) ==
    [data EXCEPT ![target_index].voxel = voxel]

\* set_voxel with the face loop matching on the voxel the target held before
set_voxel_old_faces(w, position, voxel, checks) ==
    LET found == get_voxel_index(w.size, w.origin_offset, position, checks)
    IN  IF found.kind = "Panic"
        THEN [data |-> w.voxel_data, result |-> [kind |-> "Panic"]]
        ELSE IF found.kind = "None"
        THEN [data |-> w.voxel_data,
              result |-> [kind |-> "Err", error |-> "PositionInvalid",
                          payload |-> position]]
        ELSE IF tile_index_invalid(voxel, w.max_tiles)
        THEN [data |-> w.voxel_data,
              result |-> [kind |-> "Err", error |-> "TileIndexInvalid",
                          payload |-> voxel.index]]
        ELSE LET target_index == found.index
                 old_voxel == w.voxel_data[target_index].voxel
                 stored == store_voxel(w.voxel_data, target_index, voxel)
                 done == set_faces(w, stored, target_index, position, old_voxel,
                                   0, checks)
             IN  IF done.panic
                 THEN [data |-> done.data, result |-> [kind |-> "Panic"]]
                 ELSE [data |-> done.data,
                       result |-> [kind |-> "Ok", value |-> old_voxel]]

\* World::set_voxel.  Gives the voxel data after the call and its result.
set_voxel(w, position, voxel, checks) ==
    LET found == get_voxel_index(w.size, w.origin_offset, position, checks)
    IN  IF found.kind = "Panic"
        THEN [data |-> w.voxel_data, result |-> [kind |-> "Panic"]]
        ELSE IF found.kind = "None"
        THEN [data |-> w.voxel_data,
              result |-> [kind |-> "Err", error |-> "PositionInvalid",
                          payload |-> position]]
        ELSE IF tile_index_invalid(voxel, w.max_tiles)
        THEN [data |-> w.voxel_data,
              result |-> [kind |-> "Err", error |-> "TileIndexInvalid",
                          payload |-> voxel.index]]
        ELSE LET target_index == found.index
                 old_voxel == w.voxel_data[target_index].voxel
                 stored == store_voxel(w.voxel_data, target_index, voxel)
                 done == set_faces(w, stored, target_index, position, voxel,
                                   0, checks)
             IN  IF done.panic
                 THEN [data |-> done.data, result |-> [kind |-> "Panic"]]
                 ELSE [data |-> done.data,
                       result |-> [kind |-> "Ok", value |-> old_voxel]]

----------------------------------------------------------------------------
(* Mesh generator *)

\* Face::get_vertex_positions, in half units (0.5 is 1)
get_vertex_positions(face) ==
    CASE face = "PosX" ->
            << <<1, -1, 1>>, <<1, 1, 1>>, <<1, -1, -1>>,
               <<1, 1, 1>>, <<1, 1, -1>>, <<1, -1, -1>> >>
      [] face = "NegX" ->
            << <<-1, -1, -1>>, <<-1, 1, -1>>, <<-1, -1, 1>>,
               <<-1, 1, -1>>, <<-1, 1, 1>>, <<-1, -1, 1>> >>
      [] face = "PosY" ->
            << <<-1, 1, 1>>, <<-1, 1, -1>>, <<1, 1, 1>>,
               <<-1, 1, -1>>, <<1, 1, -1>>, <<1, 1, 1>> >>
      [] face = "NegY" ->
            << <<-1, -1, -1>>, <<-1, -1, 1>>, <<1, -1, -1>>,
               <<-1, -1, 1>>, <<1, -1, 1>>, <<1, -1, -1>> >>
      [] face = "PosZ" ->
            << <<-1, -1, 1>>, <<-1, 1, 1>>, <<1, -1, 1>>,
               <<-1, 1, 1>>, <<1, 1, 1>>, <<1, -1, 1>> >>
      [] face = "NegZ" ->
            << <<1, -1, -1>>, <<1, 1, -1>>, <<-1, -1, -1>>,
               <<1, 1, -1>>, <<-1, 1, -1>>, <<-1, -1, -1>> >>

\* Face::get_vertex_uvs, <<u, v>> with v in thousandths
get_vertex_uvs(face) ==
    CASE face \in {"PosX", "NegX", "PosZ", "NegZ"} ->
            << <<0, 667>>, <<0, 333>>, <<1, 667>>,
               <<0, 333>>, <<1, 333>>, <<1, 667>> >>
      [] face = "PosY" ->
            << <<0, 333>>, <<0, 0>>, <<1, 333>>,
               <<0, 0>>, <<1, 0>>, <<1, 333>> >>
      [] face = "NegY" ->
            << <<0, 1000>>, <<0, 667>>, <<1, 1000>>,
               <<0, 667>>, <<1, 667>>, <<1, 1000>> >>

\* World::generate_mesh, the closure that builds one vertex: the position in
\* half units, u as the fraction (tile_index + uv.x) / max_tiles
Vertex(template, uv, voxel_position, tile_index, mt) ==
    [position |-> <<template[1] + 2 * voxel_position.x,
                    template[2] + 2 * voxel_position.y,
                    template[3] + 2 * voxel_position.z>>,
     color |-> "white",
     uv |-> [u_num |-> tile_index + uv[1], u_den |-> mt, v |-> uv[2]]]

\* World::generate_mesh, the six vertices of one face
face_vertices(face, voxel_position, tile_index, mt) ==
    [k \in 1..6 |-> Vertex(get_vertex_positions(face)[k], get_vertex_uvs(face)[k],
                           voxel_position, tile_index, mt)]

\* World::generate_mesh, the loop over the faces of one Tile cell
RECURSIVE cell_vertices(_, _, _, _, _)
cell_vertices(cell, voxel_position, mt, face_index, staging) ==
    IF face_index >= FACE_MAX_COUNT
    THEN staging
    ELSE LET face == from_index(face_index)
         IN  IF ~FacesContains(cell.faces, FacesFrom(face))
             THEN cell_vertices(cell, voxel_position, mt, face_index + 1, staging)
             ELSE cell_vertices(cell, voxel_position, mt, face_index + 1,
                      staging \o face_vertices(face, voxel_position,
                                               cell.voxel.index, mt))

\* emit_cell without the skip of Void cells: a Void cell is emitted as tile 0
emit_cell_all(cell, voxel_position, mt, staging) ==
    cell_vertices([cell EXCEPT !.voxel = IF IsTile(@) THEN @ ELSE Tile(0)],
                  voxel_position, mt, 0, staging)

\* World::generate_mesh, the match on voxel_data.voxel
emit_cell(cell, voxel_position, mt, staging) ==
    IF ~IsTile(cell.voxel)
    THEN staging
    ELSE cell_vertices(cell, voxel_position, mt, 0, staging)

\* WorldIterator::next at self.index = index: the item, or None
WorldIterator_next(w, index, checks) ==
    LET position == get_voxel_position(w.size, DataLen(w.voxel_data), index)
    IN  IF position.kind # "Some"
        THEN [kind |-> "None"]
        ELSE LET found == get_voxel_data(w, position.position, checks)
             IN  IF found.kind # "Some"
                 THEN [kind |-> "None"]
                 ELSE [kind |-> "Some", position |-> position.position,
                       data |-> found.data]

\* next_index that steps over a cell
next_index_skip(index) == index + 2

\* WorldIterator::next, `self.index += 1`
next_index(index) == index + 1

\* World::generate_mesh, the loop `for (voxel_position, voxel_data) in self.iter()`
RECURSIVE scan(_, _, _, _)
scan(w, index, staging, checks) ==
    LET item == WorldIterator_next(w, index, checks)
    IN  IF item.kind = "None"
        THEN staging
        ELSE scan(w, next_index(index),
                  emit_cell(item.data, item.position, w.max_tiles, staging),
                  checks)

\* World::generate_mesh: the staging list after the scan of the world
generate_mesh(w, checks) == scan(w, 0, <<>>, checks)

\* replace_vertices without the clear
replace_vertices_append(vertices, staging) == vertices \o staging

\* World::generate_mesh, what it does to the vertex list of the mesh:
\* `self.mesh.vertices.clear()` ahead of the scan and
\* `self.mesh.vertices.extend_from_slice(&staging)` after it
replace_vertices(vertices, staging) == <<>> \o staging

----------------------------------------------------------------------------
(* Texture *)

Extent2d(w, h) == [width |-> w, height |-> h]
Extent3d(w, h, d) == [width |-> w, height |-> h, depth |-> d]

\* Extent3d::is_valid for u32 dimensions: every dimension is above zero
is_valid(extent) ==
    U32Lt(0, extent.width) /\ U32Lt(0, extent.height) /\ U32Lt(0, extent.depth)

\* TextureFormat::describe().block_size of Format::Rgba8Unorm, in bytes
block_size == 4

\* Texture::new with pixels = None: a texture of a Size::D2 size that nothing
\* was written to
Texture_new(size2d) == [size |-> size2d, writes |-> <<>>]

\* Texture::size: the Size::D2 size as an extent of depth 1
Texture_size(tex) == Extent3d(tex.size.width, tex.size.height, 1)

\* a buffer of len bytes that repeats one RGBA texel
Pixels(len, texel) == [len |-> len, texel |-> texel]

\* Texture::write_texture.  The additions and the multiplications are u32
\* operations: one that leaves the u32 range panics when overflow checks are
\* on and wraps otherwise.  On success the write is handed to the queue as it
\* is, whatever its origin.
write_texture(texture_size, format_size, origin, extent, pixels, checks) ==
    LET origin_size ==
            Extent3d(WrappingAdd(origin.x, extent.width),
                     WrappingAdd(origin.y, extent.height),
                     WrappingAdd(origin.z, extent.depth))
        row == U32WrappingMul(format_size, extent.width)
        image == U32WrappingMul(row, extent.height)
        needed == U32WrappingMul(image, extent.depth)
    IN  IF ~is_valid(extent)
        THEN [kind |-> "Err", error |-> "SizeInvalid"]
        ELSE IF checks /\ (\/ U32AddOverflows(origin.x, extent.width)
                           \/ U32AddOverflows(origin.y, extent.height)
                           \/ U32AddOverflows(origin.z, extent.depth))
        THEN [kind |-> "Panic"]
        ELSE IF \/ U32Lt(texture_size.width, origin_size.width)
                \/ U32Lt(texture_size.height, origin_size.height)
                \/ U32Lt(texture_size.depth, origin_size.depth)
        THEN [kind |-> "Err", error |-> "OriginInvalid"]
        ELSE IF checks /\ (\/ U32MulOverflows(format_size, extent.width)
                           \/ U32MulOverflows(row, extent.height)
                           \/ U32MulOverflows(image, extent.depth))
        THEN [kind |-> "Panic"]
        ELSE IF U32Lt(pixels.len, needed)
        THEN [kind |-> "Err", error |-> "PixelsInvalid"]
        ELSE [kind |-> "Ok",
              write |-> [origin |-> origin, size |-> extent, pixels |-> pixels]]

\* Texture::write.  Gives the texture after the call and its result.
Texture_write(tex, origin, extent, pixels, checks) ==
    LET r == write_texture(Texture_size(tex), block_size, origin, extent,
                           pixels, checks)
    IN  IF r.kind = "Ok"
        THEN [texture |-> [tex EXCEPT !.writes = Append(@, r.write)],
              result |-> [kind |-> "Ok"]]
        ELSE [texture |-> tex, result |-> r]

\* World::TEXTURE_SIZE
TEXTURE_SIZE == Extent2d(8, 24)

\* AtlasSize with room for one tile whatever max_tiles is
AtlasSize_one_tile(mt) == Extent2d(TEXTURE_SIZE.width, TEXTURE_SIZE.height)

\* World::new, the size of the atlas texture
AtlasSize(mt) == Extent2d(TEXTURE_SIZE.width * mt, TEXTURE_SIZE.height)

\* required_size with the last byte of the buffer not asked for
required_size_short(layout) ==
    CASE layout = "Single" -> 4 * TEXTURE_SIZE.width * TEXTURE_SIZE.height - 1

\* World::set_voxel_texture, the match on the layout
required_size(layout) ==
    CASE layout = "Single" -> 4 * TEXTURE_SIZE.width * TEXTURE_SIZE.height

\* texture_tile_index_invalid that lets tile_index = max_tiles through
texture_tile_index_invalid_above(tile_index, mt) ==
    tile_index < 0 \/ tile_index > mt

\* World::set_voxel_texture, `tile_index >= self.max_tiles` on u32 values
texture_tile_index_invalid(tile_index, mt) == U32Ge(tile_index, mt)

\* World::set_voxel_texture.  Gives the texture after the call and its result.
set_voxel_texture(mt, tex, tile_index, layout, pixels, checks) ==
    IF texture_tile_index_invalid(tile_index, mt)
    THEN [texture |-> tex,
          result |-> [kind |-> "Err", error |-> "TileIndexInvalid",
                      payload |-> tile_index]]
    ELSE IF pixels.len < required_size(layout)
    THEN [texture |-> tex, result |-> [kind |-> "Err", error |-> "DataInvalid"]]
    ELSE IF checks /\ U32MulOverflows(TEXTURE_SIZE.width, tile_index)
    THEN [texture |-> tex, result |-> [kind |-> "Panic"]]
    ELSE LET origin == Offset3d(U32WrappingMul(TEXTURE_SIZE.width, tile_index), 0, 0)
             extent == Extent3d(TEXTURE_SIZE.width, TEXTURE_SIZE.height, 1)
             written == Texture_write(tex, origin, extent, pixels, checks)
         IN  IF written.result.kind = "Err"
             THEN [texture |-> written.texture,
                   result |-> [kind |-> "Err", error |-> "Texture",
                               payload |-> written.result.error]]
             ELSE written

----------------------------------------------------------------------------
(* Mesh *)

\* size_of::<Vertex>(): 3 + 4 + 2 values of type f32, repr(C)
VERTEX_SIZE == 36
\* size_of::<u32>(), the size of one index
INDEX_SIZE == 4
\* BufferInfo::ALIGNMENT
ALIGNMENT == 256

\* BufferInfo::get_aligned_size
get_aligned_size(value) ==
    LET remainder == value % ALIGNMENT
    IN  value + (ALIGNMENT - remainder)

\* BufferInfo::new, the loop over the submeshes: the (offset, size) of the
\* index list of every submesh from the k-th on, laid out from aligned_size on
RECURSIVE indices_offset_sizes(_, _, _)
indices_offset_sizes(submeshes, k, aligned_size) ==
    IF k > Len(submeshes)
    THEN [offset_sizes |-> <<>>, aligned_size |-> aligned_size]
    ELSE LET indices_size == INDEX_SIZE * Len(submeshes[k])
             rest == indices_offset_sizes(submeshes, k + 1,
                         aligned_size + get_aligned_size(indices_size))
         IN  [offset_sizes |-> <<[offset |-> aligned_size, size |-> indices_size]>>
                                \o rest.offset_sizes,
              aligned_size |-> rest.aligned_size]

\* BufferInfo::new
BufferInfo_new(vertices, submeshes) ==
    LET vertices_size == VERTEX_SIZE * Len(vertices)
        laid == indices_offset_sizes(submeshes, 1, get_aligned_size(vertices_size))
    IN  [vertices_offset_size |-> [offset |-> 0, size |-> vertices_size],
         indices_offset_sizes |-> laid.offset_sizes,
         aligned_size |-> laid.aligned_size]

\* Mesh::create_buffer: a buffer of a size that nothing was written to
create_buffer(buffer_size) == [size |-> buffer_size, writes |-> <<>>]

\* Mesh::flush_buffer: the buffer after the write of the vertices and the
\* writes of the index lists, each as (offset, length in bytes)
flush_buffer(buffer_info, buffer, vertices, submeshes) ==
    [buffer EXCEPT !.writes =
        <<[offset |-> buffer_info.vertices_offset_size.offset,
           len |-> VERTEX_SIZE * Len(vertices)]>>
        \o [k \in 1..Len(submeshes) |->
                [offset |-> buffer_info.indices_offset_sizes[k].offset,
                 len |-> INDEX_SIZE * Len(submeshes[k])]]]

\* Mesh::new: it takes every vertex list and has no failure
Mesh_new(vertices, indices) ==
    LET buffer_info == BufferInfo_new(vertices, indices)
    IN  [vertices |-> vertices,
         submeshes |-> indices,
         buffer_info |-> buffer_info,
         buffer |-> flush_buffer(buffer_info,
                                 create_buffer(buffer_info.aligned_size),
                                 vertices, indices)]

\* Context::create_mesh
create_mesh(vertices, indices) == Mesh_new(vertices, indices)

\* Mesh_flush that keeps the buffer it has, whatever the new layout needs
Mesh_flush_keep_buffer(mesh) ==
    LET buffer_info == BufferInfo_new(mesh.vertices, mesh.submeshes)
        buffer == mesh.buffer
    IN  [mesh EXCEPT !.buffer_info = buffer_info,
                     !.buffer = flush_buffer(buffer_info, buffer,
                                             mesh.vertices, mesh.submeshes)]

\* Mesh::flush
Mesh_flush(mesh) ==
    LET buffer_info == BufferInfo_new(mesh.vertices, mesh.submeshes)
        buffer_size == mesh.buffer_info.aligned_size
        buffer == IF buffer_info.aligned_size > buffer_size
                  THEN create_buffer(buffer_info.aligned_size)
                  ELSE mesh.buffer
    IN  [mesh EXCEPT !.buffer_info = buffer_info,
                     !.buffer = flush_buffer(buffer_info, buffer,
                                             mesh.vertices, mesh.submeshes)]

----------------------------------------------------------------------------
(* Renderer: draw_mesh, submit *)

\* Renderer::DEFAULT_SAMPLER
DEFAULT_SAMPLER == [filter |-> "Linear", address |-> "ClampToEdge"]

\* the sampler the world gives its atlas texture in World::new
WorldSampler == [filter |-> "Nearest", address |-> "ClampToEdge"]

\* Renderer::new: empty registries, no draw state queued, the global data
\* written to the global buffer
Renderer_new ==
    [samplers |-> {}, texture_bind_group_layouts |-> {}, pipelines |-> {},
     draw_states |-> <<>>,
     global_data |-> [view |-> "identity", projection |-> "perspective"],
     global_buffer |-> [view |-> "identity", projection |-> "perspective"]]

\* Renderer::draw_mesh, the sampler of a material texture: the texture of a
\* material texture is "None", or "World" for the atlas of the world
sampler_of(material_texture) ==
    IF material_texture.texture = "None" THEN DEFAULT_SAMPLER ELSE WorldSampler

\* Renderer::draw_mesh, the view dimension of a material texture: that of the
\* default texture or of the texture, each of Size::D2
view_dimension_of(material_texture) == "D2"

\* Renderer::draw_mesh, the texture handle of a draw state
texture_handle_of(material_texture) ==
    IF material_texture.texture = "None" THEN "default_texture" ELSE "world_texture"

\* Renderer::draw_mesh, `buffer_info.indices_offset_sizes[i]` and
\* `mesh.submeshes[i]`: indexing a Vec past its end panics
index_in_range(buffer_info, submeshes, i) ==
    i < Len(buffer_info.indices_offset_sizes) /\ i < Len(submeshes)

\* Renderer::draw_mesh, the loop over material_textures from the entry of
\* index i on.  Gives the renderer after the loop and whether it panicked.
RECURSIVE record_draw_states(_, _, _, _, _)
record_draw_states(r, flushed, material_textures, transform, i) ==
    IF i >= Len(material_textures)
    THEN [renderer |-> r, panic |-> FALSE]
    ELSE LET material_texture == material_textures[i + 1]
             material == material_texture.material
             sampler == sampler_of(material_texture)
             view_dimension == view_dimension_of(material_texture)
             pipeline_index == [material |-> material,
                                view_dimension |-> view_dimension]
             registered ==
                [r EXCEPT !.samplers = @ \cup {sampler},
                          !.texture_bind_group_layouts = @ \cup {view_dimension},
                          !.pipelines = @ \cup {pipeline_index}]
             is_indexed == Len(flushed.submeshes) # 0
             start == flushed.buffer_info.vertices_offset_size.offset
             vertex_buffer ==
                [range |-> <<start,
                             start + flushed.buffer_info.vertices_offset_size.size>>,
                 element_count |-> Len(flushed.vertices)]
         IN  IF is_indexed
                /\ ~index_in_range(flushed.buffer_info, flushed.submeshes, i)
             THEN [renderer |-> registered, panic |-> TRUE]
             ELSE LET index_buffer ==
                        IF is_indexed
                        THEN LET at == flushed.buffer_info.indices_offset_sizes[i + 1]
                             IN  [kind |-> "Some",
                                  range |-> <<at.offset, at.offset + at.size>>,
                                  element_count |-> Len(flushed.submeshes[i + 1])]
                        ELSE [kind |-> "None"]
                      draw_state ==
                        [buffer |-> flushed.buffer,
                         vertex_buffer |-> vertex_buffer,
                         index_buffer |-> index_buffer,
                         material |-> material,
                         texture |-> texture_handle_of(material_texture),
                         view_dimension |-> view_dimension,
                         sampler |-> sampler,
                         push_data |-> transform]
                  IN  record_draw_states(
                          [registered EXCEPT !.draw_states = Append(@, draw_state)],
                          flushed, material_textures, transform, i + 1)

\* Renderer::draw_mesh.  Gives the renderer and the mesh after the call and
\* its result.
draw_mesh(r, transform, of_mesh, material_textures) ==
    IF Len(material_textures) = 0
       \/ Len(material_textures) < Len(of_mesh.submeshes)
    THEN [renderer |-> r, mesh |-> of_mesh,
          result |-> [kind |-> "Err", error |-> "MaterialTexturesInvalid"]]
    ELSE LET flushed == Mesh_flush(of_mesh)
             done == record_draw_states(r, flushed, material_textures,
                                        transform, 0)
         IN  [renderer |-> done.renderer, mesh |-> flushed,
              result |-> IF done.panic THEN [kind |-> "Panic"]
                                       ELSE [kind |-> "Ok"]]

\* Renderer::submit, the draw commands of one draw state
draw_commands_of(draw_state) ==
    <<[command |-> "SetPipeline",
       pipeline |-> [material |-> draw_state.material,
                     view_dimension |-> draw_state.view_dimension]],
      [command |-> "SetBindGroup", index |-> 0, bind_group |-> "global"],
      [command |-> "SetBindGroup", index |-> 1,
       bind_group |-> [layout |-> draw_state.view_dimension,
                       texture |-> draw_state.texture,
                       sampler |-> draw_state.sampler]],
      [command |-> "SetPushConstant", offset |-> 0, data |-> draw_state.push_data],
      [command |-> "SetVertexBuffer", buffer |-> draw_state.buffer,
       start |-> draw_state.vertex_buffer.range[1],
       end |-> draw_state.vertex_buffer.range[2]]>>
    \o (IF draw_state.index_buffer.kind = "Some"
        THEN <<[command |-> "SetIndexBuffer", buffer |-> draw_state.buffer,
                start |-> draw_state.index_buffer.range[1],
                end |-> draw_state.index_buffer.range[2]],
               [command |-> "DrawIndexed", start |-> 0,
                end |-> draw_state.index_buffer.element_count]>>
        ELSE <<[command |-> "Draw", start |-> 0,
                end |-> draw_state.vertex_buffer.element_count]>>)

\* Renderer::submit, the loop over the drained draw states from the k-th on
RECURSIVE drain_draw_states(_, _)
drain_draw_states(draw_states, k) ==
    IF k > Len(draw_states)
    THEN <<>>
    ELSE draw_commands_of(draw_states[k]) \o drain_draw_states(draw_states, k + 1)

\* Renderer::submit, `self.pipelines[&pipeline_index]` and
\* `self.texture_bind_group_layouts[&view_dimension]` of every draw state:
\* indexing a HashMap with a key it does not hold panics
registered_all(r) ==
    \A k \in 1..Len(r.draw_states) :
        /\ [material |-> r.draw_states[k].material,
            view_dimension |-> r.draw_states[k].view_dimension] \in r.pipelines
        /\ r.draw_states[k].view_dimension \in r.texture_bind_group_layouts

\* Renderer::submit.  Gives the renderer after the call and its result, the
\* draw command list.
submit(r) ==
    IF ~registered_all(r)
    THEN [renderer |-> r, result |-> [kind |-> "Panic"]]
    ELSE [renderer |-> [r EXCEPT !.global_buffer = r.global_data,
                                 !.draw_states = <<>>],
          result |-> [kind |-> "Ok",
                      draw_commands |-> drain_draw_states(r.draw_states, 1)]]

----------------------------------------------------------------------------
(* The world as a state machine *)

\* the world of the current state
world == World(size, origin_offset, max_tiles, voxel_data)

\* the worlds the editing specification constructs: <<size, max_tiles>>
Worlds ==
    {<<<<1, 1, 1>>, 1>>, <<<<2, 1, 1>>, 2>>, <<<<1, 2, 1>>, 1>>,
     <<<<1, 1, 2>>, 1>>, <<<<2, 2, 1>>, 1>>}

\* the in-bounds positions of a world
InBounds(sz) ==
    {Offset3d(px, py, pz) :
        px \in (-(Width(sz) \div 2))..(Width(sz) - 1 - (Width(sz) \div 2)),
        py \in (-(Height(sz) \div 2))..(Height(sz) - 1 - (Height(sz) \div 2)),
        pz \in (-(Depth(sz) \div 2))..(Depth(sz) - 1 - (Depth(sz) \div 2))}

\* the positions one step outside the world along one axis
JustOutside(sz) ==
    {other_position(p, f) : p \in InBounds(sz), f \in AllFaces} \ InBounds(sz)

\* one position just outside the world, next to its last cell on the x axis
OutsideProbe(sz) ==
    Offset3d(OriginOffset(sz).x + Width(sz), OriginOffset(sz).y, OriginOffset(sz).z)

\* positions at the ends of the i32 range
FarAway ==
    {Offset3d(I32_MAX, 0, 0), Offset3d(0, I32_MAX, 0), Offset3d(0, 0, I32_MAX),
     Offset3d(I32_MIN, 0, 0), Offset3d(0, I32_MIN, 0), Offset3d(0, 0, I32_MIN),
     Offset3d(I32_MAX, I32_MAX, I32_MAX), Offset3d(I32_MIN, I32_MIN, I32_MIN)}

\* the positions the calls of the editing specification are made with
Positions(sz) == InBounds(sz) \cup {OutsideProbe(sz)}

\* the positions the calls of the probing specification are made with
ProbePositions(sz) == InBounds(sz) \cup JustOutside(sz) \cup FarAway

\* the voxels the calls are made with: Void, every valid tile, one invalid tile
Voxels(mt) == {Void} \cup {Tile(i) : i \in 0..mt}

\* no generate_mesh under way: no WorldIterator, no staging list
IterIdle == [running |-> FALSE, index |-> 0, staging |-> <<>>, visited |-> <<>>]

Running == ops < MaxOps /\ last.result.kind # "Panic"

\* World::new
NewWorld(sz, mt, checks) ==
    /\ size = sz
    /\ origin_offset = OriginOffset(sz)
    /\ max_tiles = mt
    /\ voxel_data = NewVoxelData(sz)
    /\ LET mesh == create_mesh(<<>>, <<>>)
       IN  /\ mesh_vertices = mesh.vertices
           /\ mesh_submeshes = mesh.submeshes
           /\ mesh_buffer_info = mesh.buffer_info
           /\ mesh_buffer = mesh.buffer
    /\ texture = Texture_new(AtlasSize(mt))
    /\ overflow_checks = checks
    /\ iter = IterIdle
    /\ renderer = Renderer_new
    /\ last = [op |-> "new", args |-> <<>>, result |-> [kind |-> "Ok"]]
    /\ ops = 0

Init ==
    \E w \in Worlds, checks \in BOOLEAN : NewWorld(w[1], w[2], checks)

\* SetVoxelWith with the mesh generated anew from the store after the edit
SetVoxelWith_remesh(positions, voxels) ==
    /\ Running
    /\ \E position \in positions, voxel \in voxels :
        LET r == set_voxel(world, position, voxel, overflow_checks)
        IN  /\ voxel_data' = r.data
            /\ mesh_vertices' =
                    generate_mesh(World(size, origin_offset, max_tiles, r.data),
                                  overflow_checks)
            /\ last' = [op |-> "set_voxel", args |-> <<position, voxel>>,
                        result |-> r.result]
    /\ ops' = ops + 1
    /\ UNCHANGED <<size, origin_offset, max_tiles, mesh_submeshes,
                   mesh_buffer_info, mesh_buffer, texture,
                   overflow_checks, iter, renderer>>

\* a call of World::set_voxel with a position and a voxel of the given sets
SetVoxelWith(positions, voxels) ==
    /\ Running
    /\ \E position \in positions, voxel \in voxels :
        LET r == set_voxel(world, position, voxel, overflow_checks)
        IN  /\ voxel_data' = r.data
            /\ last' = [op |-> "set_voxel", args |-> <<position, voxel>>,
                        result |-> r.result]
    /\ ops' = ops + 1
    /\ UNCHANGED <<size, origin_offset, max_tiles, mesh_vertices, mesh_submeshes,
                   mesh_buffer_info, mesh_buffer, texture,
                   overflow_checks, iter, renderer>>

\* a call of World::set_voxel
SetVoxel == SetVoxelWith(Positions(size), Voxels(max_tiles))

\* a call of World::get_voxel with a position of the given set
GetVoxelWith(positions) ==
    /\ Running
    /\ \E position \in positions :
        last' = [op |-> "get_voxel", args |-> <<position>>,
                 result |-> get_voxel(world, position, overflow_checks)]
    /\ ops' = ops + 1
    /\ UNCHANGED <<size, origin_offset, max_tiles, voxel_data, mesh_vertices,
                   mesh_submeshes, mesh_buffer_info, mesh_buffer, texture,
                   overflow_checks, iter, renderer>>

\* a call of World::get_voxel
GetVoxel == GetVoxelWith(Positions(size))

\* a call of World::generate_mesh
GenerateMesh ==
    /\ Running
    /\ mesh_vertices' = replace_vertices(mesh_vertices,
                                         generate_mesh(world, overflow_checks))
    /\ last' = [op |-> "generate_mesh", args |-> <<>>, result |-> [kind |-> "Ok"]]
    /\ ops' = ops + 1
    /\ UNCHANGED <<size, origin_offset, max_tiles, voxel_data, mesh_submeshes,
                   mesh_buffer_info, mesh_buffer, texture,
                   overflow_checks, iter, renderer>>

Next == SetVoxel \/ GetVoxel \/ GenerateMesh

Spec == Init /\ [][Next]_vars

----------------------------------------------------------------------------
(* The coordinate mapper and the bounds check on their own: one call on a     *)
(* freshly constructed world of any size up to MaxDim per axis.  The calls    *)
(* made here leave the world as it is.                                        *)

ProbeSizes == {<<w, h, d>> : w \in 1..MaxDim, h \in 1..MaxDim, d \in 1..MaxDim}

ProbeInit ==
    \E sz \in ProbeSizes, mt \in {1, 2}, checks \in BOOLEAN : NewWorld(sz, mt, checks)

Probing == ops = 0

\* a call of World::get_voxel_position, with every index up to voxel_data.len()
ProbeVoxelPosition ==
    /\ Probing
    /\ \E index \in 0..DataLen(voxel_data) :
        last' = [op |-> "get_voxel_position", args |-> <<index>>,
                 result |-> get_voxel_position(size, DataLen(voxel_data), index)]
    /\ ops' = ops + 1
    /\ UNCHANGED <<size, origin_offset, max_tiles, voxel_data, mesh_vertices,
                   mesh_submeshes, mesh_buffer_info, mesh_buffer, texture,
                   overflow_checks, iter, renderer>>

\* a call of World::get_voxel_index
ProbeVoxelIndex ==
    /\ Probing
    /\ \E position \in ProbePositions(size) :
        last' = [op |-> "get_voxel_index", args |-> <<position>>,
                 result |-> get_voxel_index(size, origin_offset, position,
                                            overflow_checks)]
    /\ ops' = ops + 1
    /\ UNCHANGED <<size, origin_offset, max_tiles, voxel_data, mesh_vertices,
                   mesh_submeshes, mesh_buffer_info, mesh_buffer, texture,
                   overflow_checks, iter, renderer>>

\* a call of World::get_voxel
ProbeGetVoxel == Probing /\ GetVoxelWith(ProbePositions(size))

\* a call of World::set_voxel with a position outside the world
ProbeSetVoxelOutside ==
    /\ Probing
    /\ SetVoxelWith(JustOutside(size) \cup FarAway, Voxels(max_tiles))

\* a call of World::set_voxel with a tile index that is not below max_tiles
ProbeSetVoxelBadTile ==
    /\ Probing
    /\ SetVoxelWith(InBounds(size), {Tile(max_tiles), Tile(max_tiles + 1)})

ProbeNext ==
    \/ ProbeVoxelPosition
    \/ ProbeVoxelIndex
    \/ ProbeGetVoxel
    \/ ProbeSetVoxelOutside
    \/ ProbeSetVoxelBadTile

SpecProbe == ProbeInit /\ [][ProbeNext]_vars

----------------------------------------------------------------------------
(* The end-to-end scenario: a world of size (3,1,3) with max_tiles = 1,      *)
(* edited at its centre cell and the four in-bounds neighbours of it.         *)

ScenarioSize == <<3, 1, 3>>

ScenarioPositions ==
    {Offset3d(0, 0, 0), Offset3d(1, 0, 0), Offset3d(-1, 0, 0),
     Offset3d(0, 0, 1), Offset3d(0, 0, -1)}

ScenarioInit == \E checks \in BOOLEAN : NewWorld(ScenarioSize, 1, checks)

ScenarioSetVoxel == SetVoxelWith(ScenarioPositions, {Void, Tile(0)})

ScenarioNext == ScenarioSetVoxel \/ GenerateMesh

SpecScenario == ScenarioInit /\ [][ScenarioNext]_vars

----------------------------------------------------------------------------
(* The world with its atlas: edits of the voxels, writes of tile textures    *)
(* and generations of the mesh, in any order.                                  *)

\* the worlds the atlas specification constructs: <<size, max_tiles>>
AtlasWorlds == {<<<<1, 1, 1>>, 1>>, <<<<2, 1, 1>>, 2>>}

AtlasInit ==
    \E w \in AtlasWorlds, checks \in BOOLEAN : NewWorld(w[1], w[2], checks)

AtlasRunning == ops < MaxAtlasOps

\* the tile indices the calls are made with: every valid one, the two above
\* them and the largest u32
TileIndices(mt) == (0..(mt + 1)) \cup {U32_MAX}

\* the pixel buffers the calls are made with: empty, one byte short of a tile,
\* exactly one tile, one byte more than a tile
PixelBuffers ==
    {Pixels(len, texel) :
        len \in {0, required_size("Single") - 1, required_size("Single"),
                 required_size("Single") + 1},
        texel \in {"black", "white"}}

\* a call of World::set_voxel_texture with a tile index and a pixel buffer of
\* the given sets
SetVoxelTextureWith(tile_indices, buffers) ==
    /\ Running
    /\ \E tile_index \in tile_indices, pixels \in buffers :
        LET r == set_voxel_texture(max_tiles, texture, tile_index, "Single",
                                   pixels, overflow_checks)
        IN  /\ texture' = r.texture
            /\ last' = [op |-> "set_voxel_texture",
                        args |-> <<tile_index, "Single", pixels>>,
                        result |-> r.result]
    /\ ops' = ops + 1
    /\ UNCHANGED <<size, origin_offset, max_tiles, voxel_data, mesh_vertices,
                   mesh_submeshes, mesh_buffer_info, mesh_buffer,
                   overflow_checks, iter, renderer>>

AtlasSetVoxel ==
    /\ AtlasRunning
    /\ SetVoxelWith(InBounds(size), {Void, Tile(0), Tile(max_tiles)})

AtlasSetVoxelTexture ==
    /\ AtlasRunning
    /\ SetVoxelTextureWith(TileIndices(max_tiles), PixelBuffers)

AtlasGenerateMesh == AtlasRunning /\ GenerateMesh

AtlasNext == AtlasSetVoxel \/ AtlasSetVoxelTexture \/ AtlasGenerateMesh

SpecAtlas == AtlasInit /\ [][AtlasNext]_vars

----------------------------------------------------------------------------
(* Texture::write on its own: one call on the atlas of a freshly constructed  *)
(* world, which World::texture hands out.                                      *)

TextureInit ==
    \E mt \in {1, 2}, checks \in BOOLEAN : NewWorld(<<1, 1, 1>>, mt, checks)

\* the origins the calls are made with: inside the texture, at its far
\* corner, just past it on each axis, far past it, at the end of the u32 range
Origins(extent) ==
    {Offset3d(0, 0, 0),
     Offset3d(extent.width - 1, extent.height - 1, 0),
     Offset3d(extent.width, 0, 0), Offset3d(0, extent.height, 0),
     Offset3d(0, 0, extent.depth),
     Offset3d(32, 32, 32),
     Offset3d(U32_MAX, 0, 0), Offset3d(0, U32_MAX, 0), Offset3d(0, 0, U32_MAX)}

\* the extents the calls are made with: with a dimension of 0, one texel, one
\* tile, and extents that reach past the texture
Extents ==
    {Extent3d(0, 0, 0), Extent3d(0, 1, 1), Extent3d(1, 0, 1), Extent3d(1, 1, 0),
     Extent3d(1, 1, 1),
     Extent3d(TEXTURE_SIZE.width, TEXTURE_SIZE.height, 1),
     Extent3d(2, 1, 1), Extent3d(1, 1, 2), Extent3d(U32_MAX, 1, 1)}

\* the pixel buffers the calls are made with: empty, around one texel, around
\* one tile
WritePixels ==
    {Pixels(len, "white") :
        len \in {0, block_size - 1, block_size,
                 required_size("Single") - 1, required_size("Single")}}

\* a call of Texture::write on World::texture()
TextureWrite ==
    /\ Probing
    /\ \E origin \in Origins(Texture_size(texture)), extent \in Extents,
          pixels \in WritePixels :
        LET r == Texture_write(texture, origin, extent, pixels, overflow_checks)
        IN  /\ texture' = r.texture
            /\ last' = [op |-> "texture_write",
                        args |-> <<origin, extent, pixels>>,
                        result |-> r.result]
    /\ ops' = ops + 1
    /\ UNCHANGED <<size, origin_offset, max_tiles, voxel_data, mesh_vertices,
                   mesh_submeshes, mesh_buffer_info, mesh_buffer,
                   overflow_checks, iter, renderer>>

SpecTexture == TextureInit /\ [][TextureWrite]_vars

----------------------------------------------------------------------------
(* Meshes on their own: a mesh is made by Context::create_mesh, as World::new *)
(* makes the mesh of the world, then its vertices are changed and the mesh is  *)
(* flushed.                                                                     *)

MeshInit == \E checks \in BOOLEAN : NewWorld(<<1, 1, 1>>, 1, checks)

\* the three vertices of a triangle: positions in half units, u as a fraction
\* and v in thousandths
TriangleVertices ==
    << [position |-> <<-1, -1, -2>>, color |-> "red",
        uv |-> [u_num |-> 0, u_den |-> 1, v |-> 0]],
       [position |-> <<0, 1, -2>>, color |-> "green",
        uv |-> [u_num |-> 1, u_den |-> 2, v |-> 1000]],
       [position |-> <<1, -1, -2>>, color |-> "blue",
        uv |-> [u_num |-> 1, u_den |-> 1, v |-> 0]] >>

\* the vertex lists meshes are made from: the empty list and the first one,
\* two and three vertices of the triangle
VertexLists == {SubSeq(TriangleVertices, 1, n) : n \in 0..Len(TriangleVertices)}

\* the index lists meshes are made from: no submesh, one submesh
IndexLists == {<<>>, << <<0, 1, 2>> >>}

\* the mesh of the current state
mesh ==
    [vertices |-> mesh_vertices, submeshes |-> mesh_submeshes,
     buffer_info |-> mesh_buffer_info, buffer |-> mesh_buffer]

\* a call of Context::create_mesh
CreateMesh ==
    /\ Running
    /\ \E vertices \in VertexLists, indices \in IndexLists :
        LET made == create_mesh(vertices, indices)
        IN  /\ mesh_vertices' = made.vertices
            /\ mesh_submeshes' = made.submeshes
            /\ mesh_buffer_info' = made.buffer_info
            /\ mesh_buffer' = made.buffer
            /\ last' = [op |-> "create_mesh", args |-> <<vertices, indices>>,
                        result |-> [kind |-> "Ok"]]
    /\ ops' = ops + 1
    /\ UNCHANGED <<size, origin_offset, max_tiles, voxel_data, texture,
                   overflow_checks, iter, renderer>>

\* an assignment to the colour of a vertex, `mesh.vertices[i].color = ...`
SetVertexColor ==
    /\ Running
    /\ \E i \in 1..Len(mesh_vertices) :
        /\ mesh_vertices' = [mesh_vertices EXCEPT ![i].color = "violet"]
        /\ last' = [op |-> "set_vertex_color", args |-> <<i - 1>>,
                    result |-> [kind |-> "Ok"]]
    /\ ops' = ops + 1
    /\ UNCHANGED <<size, origin_offset, max_tiles, voxel_data, mesh_submeshes,
                   mesh_buffer_info, mesh_buffer, texture,
                   overflow_checks, iter, renderer>>

\* a call of Mesh::flush
Flush ==
    /\ Running
    /\ LET flushed == Mesh_flush(mesh)
       IN  /\ mesh_buffer_info' = flushed.buffer_info
           /\ mesh_buffer' = flushed.buffer
    /\ last' = [op |-> "flush", args |-> <<>>, result |-> [kind |-> "Ok"]]
    /\ ops' = ops + 1
    /\ UNCHANGED <<size, origin_offset, max_tiles, voxel_data, mesh_vertices,
                   mesh_submeshes, texture, overflow_checks, iter, renderer>>

MeshNext == CreateMesh \/ SetVertexColor \/ Flush

SpecMesh == MeshInit /\ [][MeshNext]_vars

----------------------------------------------------------------------------
(* The face loop of set_voxel on a world where every cell has neighbours in   *)
(* bounds and out of bounds: size (2,2,1), max_tiles = 1.                     *)

OrderSize == <<2, 2, 1>>

OrderInit == \E checks \in BOOLEAN : NewWorld(OrderSize, 1, checks)

OrderRunning == ops < MaxOrderOps

\* a call of World::set_voxel with an in-bounds position and a valid voxel
OrderSetVoxel == OrderRunning /\ SetVoxelWith(InBounds(size), {Void, Tile(0)})

SpecOrder == OrderInit /\ [][OrderSetVoxel]_vars

----------------------------------------------------------------------------
(* The buffer of a mesh whose vertex and index lists grow and shrink between  *)
(* flushes.  The lists are public fields of the mesh; the lengths are chosen  *)
(* on both sides of the multiples of ALIGNMENT bytes.                         *)

BufferRunning == ops < MaxBufferOps

\* the numbers of vertices the vertex list is resized to: none, 252 bytes,
\* 288 bytes, 540 bytes
VertexCounts == {0, 7, 8, 15}

\* the numbers of indices an index list is resized to: a triangle, and 256
\* bytes of indices
IndexCounts == {3, 64}

\* the lists of submeshes the mesh is given: none, one, two
SubmeshLists ==
    {<<>>} \cup {<<[i \in 1..n |-> 0]>> : n \in IndexCounts}
           \cup {<<[i \in 1..n |-> 0], [i \in 1..m |-> 0]>> :
                    n \in IndexCounts, m \in IndexCounts}

\* an assignment to `mesh.vertices` that changes its length
ResizeVertices ==
    /\ BufferRunning
    /\ \E n \in VertexCounts :
        /\ n # Len(mesh_vertices)
        /\ mesh_vertices' = [i \in 1..n |-> TriangleVertices[1]]
        /\ last' = [op |-> "resize_vertices", args |-> <<n>>,
                    result |-> [kind |-> "Ok"]]
    /\ ops' = ops + 1
    /\ UNCHANGED <<size, origin_offset, max_tiles, voxel_data, mesh_submeshes,
                   mesh_buffer_info, mesh_buffer, texture,
                   overflow_checks, iter, renderer>>

\* an assignment to `mesh.submeshes` that changes it
ResizeSubmeshes ==
    /\ BufferRunning
    /\ \E submeshes \in SubmeshLists :
        /\ submeshes # mesh_submeshes
        /\ mesh_submeshes' = submeshes
        /\ last' = [op |-> "resize_submeshes",
                    args |-> <<[k \in 1..Len(submeshes) |-> Len(submeshes[k])]>>,
                    result |-> [kind |-> "Ok"]]
    /\ ops' = ops + 1
    /\ UNCHANGED <<size, origin_offset, max_tiles, voxel_data, mesh_vertices,
                   mesh_buffer_info, mesh_buffer, texture,
                   overflow_checks, iter, renderer>>

\* a call of Mesh::flush
BufferFlush ==
    /\ BufferRunning
    /\ LET flushed == Mesh_flush(mesh)
       IN  /\ mesh_buffer_info' = flushed.buffer_info
           /\ mesh_buffer' = flushed.buffer
    /\ last' = [op |-> "flush", args |-> <<>>, result |-> [kind |-> "Ok"]]
    /\ ops' = ops + 1
    /\ UNCHANGED <<size, origin_offset, max_tiles, voxel_data, mesh_vertices,
                   mesh_submeshes, texture, overflow_checks, iter, renderer>>

BufferNext == ResizeVertices \/ ResizeSubmeshes \/ BufferFlush

SpecBuffer == MeshInit /\ [][BufferNext]_vars

----------------------------------------------------------------------------
(* The renderer: meshes with no, one and two submeshes are drawn with lists   *)
(* of no to three material textures, and the queue is submitted.              *)

RenderRunning == ops < MaxRenderOps /\ last.result.kind # "Panic"

\* the index lists meshes are made from: no submesh, one, two
RenderIndexLists == {<<>>, << <<0, 1, 2>> >>, << <<0, 1, 2>>, <<2, 1, 0>> >>}

\* the lists of material textures meshes are drawn with, made of a material
\* with no texture and of another material with the atlas of the world
MaterialTextureLists ==
    LET OpaqueBack == [material |-> [cull |-> "Back", blend |-> "Opaque"],
                       texture |-> "None"]
        OpaqueNone == [material |-> [cull |-> "None", blend |-> "Opaque"],
                       texture |-> "World"]
    IN  {<<>>, <<OpaqueBack>>, <<OpaqueNone>>, <<OpaqueBack, OpaqueNone>>,
         <<OpaqueBack, OpaqueBack>>, <<OpaqueBack, OpaqueNone, OpaqueBack>>}

\* a call of Context::create_mesh
RenderCreateMesh ==
    /\ RenderRunning
    /\ \E vertices \in {<<>>, TriangleVertices}, indices \in RenderIndexLists :
        LET made == create_mesh(vertices, indices)
        IN  /\ mesh_vertices' = made.vertices
            /\ mesh_submeshes' = made.submeshes
            /\ mesh_buffer_info' = made.buffer_info
            /\ mesh_buffer' = made.buffer
            /\ last' = [op |-> "create_mesh", args |-> <<vertices, indices>>,
                        result |-> [kind |-> "Ok"]]
    /\ ops' = ops + 1
    /\ UNCHANGED <<size, origin_offset, max_tiles, voxel_data, texture,
                   overflow_checks, iter, renderer>>

\* a call of Renderer::draw_mesh
DrawMesh ==
    /\ RenderRunning
    /\ \E material_textures \in MaterialTextureLists :
        LET r == draw_mesh(renderer, "identity", mesh, material_textures)
        IN  /\ renderer' = r.renderer
            /\ mesh_buffer_info' = r.mesh.buffer_info
            /\ mesh_buffer' = r.mesh.buffer
            /\ last' = [op |-> "draw_mesh",
                        args |-> <<"identity", material_textures>>,
                        result |-> r.result]
    /\ ops' = ops + 1
    /\ UNCHANGED <<size, origin_offset, max_tiles, voxel_data, mesh_vertices,
                   mesh_submeshes, texture, overflow_checks, iter>>

\* a call of Renderer::submit
Submit ==
    /\ RenderRunning
    /\ LET r == submit(renderer)
       IN  /\ renderer' = r.renderer
           /\ last' = [op |-> "submit", args |-> <<>>, result |-> r.result]
    /\ ops' = ops + 1
    /\ UNCHANGED <<size, origin_offset, max_tiles, voxel_data, mesh_vertices,
                   mesh_submeshes, mesh_buffer_info, mesh_buffer, texture,
                   overflow_checks, iter>>

RenderNext == RenderCreateMesh \/ DrawMesh \/ Submit

SpecRender == MeshInit /\ [][RenderNext]_vars

----------------------------------------------------------------------------
(* Histories of Tile writes only: every set_voxel call is made with a Tile,   *)
(* valid or not, at a position in bounds or just outside.                     *)

\* a call of World::set_voxel with a Tile
TilesSetVoxel == SetVoxelWith(Positions(size), {Tile(i) : i \in 0..max_tiles})

SpecTiles == Init /\ [][TilesSetVoxel \/ GetVoxel]_vars

----------------------------------------------------------------------------
(* generate_mesh step by step: the call begins, its WorldIterator yields one  *)
(* cell per step, and the call ends when the iterator yields None.  The       *)
(* iterator borrows the world, so no edit is made while it runs.              *)

ScanSizes == {<<2, 1, 1>>, <<1, 2, 2>>}

ScanInit == \E sz \in ScanSizes, checks \in BOOLEAN : NewWorld(sz, 1, checks)

ScanCalling == ~iter.running /\ ops < MaxScanOps

\* a call of World::set_voxel with an in-bounds position and a valid voxel
ScanSetVoxel == ScanCalling /\ SetVoxelWith(InBounds(size), {Void, Tile(0)})

\* World::generate_mesh up to its loop: `self.mesh.vertices.clear()`,
\* `let mut staging = Vec::new()`, `self.iter()`
ScanBegin ==
    /\ ScanCalling
    /\ mesh_vertices' = <<>>
    /\ iter' = [running |-> TRUE, index |-> 0, staging |-> <<>>, visited |-> <<>>]
    /\ last' = [op |-> "generate_mesh", args |-> <<>>,
                result |-> [kind |-> "Scanning"]]
    /\ ops' = ops + 1
    /\ UNCHANGED <<size, origin_offset, max_tiles, voxel_data, mesh_submeshes,
                   mesh_buffer_info, mesh_buffer, texture, overflow_checks,
                   renderer>>

\* one iteration of the loop of World::generate_mesh: WorldIterator::next
\* yields a cell and the body of the loop emits its vertices
ScanStep ==
    /\ iter.running
    /\ LET item == WorldIterator_next(world, iter.index, overflow_checks)
       IN  /\ item.kind = "Some"
           /\ iter' = [iter EXCEPT
                          !.index = next_index(@),
                          !.staging = emit_cell(item.data, item.position,
                                                max_tiles, @),
                          !.visited = Append(@, iter.index)]
    /\ UNCHANGED <<size, origin_offset, max_tiles, voxel_data, mesh_vertices,
                   mesh_submeshes, mesh_buffer_info, mesh_buffer, texture,
                   overflow_checks, last, ops, renderer>>

\* the end of World::generate_mesh: WorldIterator::next yields None and
\* `self.mesh.vertices.extend_from_slice(&staging)`
ScanEnd ==
    /\ iter.running
    /\ WorldIterator_next(world, iter.index, overflow_checks).kind = "None"
    /\ mesh_vertices' = mesh_vertices \o iter.staging
    /\ iter' = [iter EXCEPT !.running = FALSE]
    /\ last' = [op |-> "generate_mesh", args |-> <<>>, result |-> [kind |-> "Ok"]]
    /\ UNCHANGED <<size, origin_offset, max_tiles, voxel_data, mesh_submeshes,
                   mesh_buffer_info, mesh_buffer, texture, overflow_checks, ops,
                   renderer>>

ScanNext == ScanSetVoxel \/ ScanBegin \/ ScanStep \/ ScanEnd

SpecScan == ScanInit /\ [][ScanNext]_vars

\* a call of generate_mesh that has begun runs on: the loop is synchronous
SpecScanLive == SpecScan /\ WF_vars(ScanStep \/ ScanEnd)

----------------------------------------------------------------------------
(* What the claims speak of *)

\* the cell of a voxel store at an in-bounds position, found as
\* z * width * height + y * width + x of the position less origin_offset
Cell(data, p) ==
    data[(p.z - origin_offset.z) * Width(size) * Height(size)
         + (p.y - origin_offset.y) * Width(size)
         + (p.x - origin_offset.x)]

\* the box origin_offset <= p < origin_offset + size, origin_offset = -(size / 2)
InBox(p) ==
    /\ -(Width(size) \div 2) <= p.x /\ p.x - Width(size) < -(Width(size) \div 2)
    /\ -(Height(size) \div 2) <= p.y /\ p.y - Height(size) < -(Height(size) \div 2)
    /\ -(Depth(size) \div 2) <= p.z /\ p.z - Depth(size) < -(Depth(size) \div 2)

\* the position next to an in-bounds position in a direction
Neighbour(p, face) ==
    LET a == get_adjacent_voxel_position(face)
    IN  Offset3d(p.x + a.x, p.y + a.y, p.z + a.z)

\* the face flag of a cell in a direction
Flag(data, p, face) == FacesContains(Cell(data, p).faces, FacesFrom(face))

\* the number of face flags set in a mask
FlagCount(faces) ==
    Cardinality({f \in AllFaces : FacesContains(faces, FacesFrom(f))})

\* the neighbour of p in a direction is out of bounds or Void
Open(data, p, face) ==
    \/ ~InBox(Neighbour(p, face))
    \/ ~IsTile(Cell(data, Neighbour(p, face)).voxel)

\* face exposure at one cell: a flag is set iff the face is open
ExposureAt(data, p, faces) ==
    \A f \in faces : Flag(data, p, f) <=> Open(data, p, f)

\* face exposure of a whole store
FaceExposure(data) ==
    \A p \in InBounds(size) :
        IsTile(Cell(data, p).voxel) => ExposureAt(data, p, AllFaces)

AllVoid(data) == \A p \in InBounds(size) : ~IsTile(Cell(data, p).voxel)

ValidVoxels == {Void} \cup {Tile(i) : i \in 0..(max_tiles - 1)}

\* the store after a call of set_voxel on the world with the given store
After(data, p, v) ==
    set_voxel(World(size, origin_offset, max_tiles, data), p, v,
              overflow_checks).data

LastSetOk == last.op = "set_voxel" /\ last.result.kind = "Ok"

----------------------------------------------------------------------------
(* C1 *)

\* C1: after every successful set_voxel call, for every occupied cell and
\* every direction the face flag is set iff the neighbour in that direction
\* is out of bounds or Void.
C1_FaceExposureAfterSet == LastSetOk => FaceExposure(voxel_data)

----------------------------------------------------------------------------
(* C2 *)

\* the in-bounds pairs <<A, B, f>> where B is the neighbour of A in direction f
AdjacentPairs ==
    {t \in InBounds(size) \X InBounds(size) \X AllFaces :
        t[2] = Neighbour(t[1], t[3])}

\* after A then B are set to tiles: the shared face is exposed on neither
\* cell and every other face of both is exposed exactly when it is open
AdjacencyHolds(data, A, B, f, ta, tb) ==
    LET done == After(After(data, A, Tile(ta)), B, Tile(tb))
    IN  /\ ~Flag(done, A, f)
        /\ ~Flag(done, B, opposite(f))
        /\ ExposureAt(done, A, AllFaces \ {f})
        /\ ExposureAt(done, B, AllFaces \ {opposite(f)})

\* C2: in any reachable state where two adjacent in-bounds cells A and B are
\* both Void, setting both to Tile, in either order, leaves the shared face
\* exposed on neither cell, and every other face of A and B is exposed exactly
\* when its neighbour is Void or out of bounds.
C2_AdjacentTiles ==
    \A t \in AdjacentPairs :
        (~IsTile(Cell(voxel_data, t[1]).voxel) /\ ~IsTile(Cell(voxel_data, t[2]).voxel))
        => \A ta, tb \in 0..(max_tiles - 1) :
              /\ AdjacencyHolds(voxel_data, t[1], t[2], t[3], ta, tb)
              /\ AdjacencyHolds(voxel_data, t[2], t[1], opposite(t[3]), tb, ta)

----------------------------------------------------------------------------
(* C3 *)

\* the in-bounds neighbours of a position
InBoundsNeighbours(p) ==
    {q \in InBounds(size) : \E f \in AllFaces : q = Neighbour(p, f)}

\* C3: in any state where every cell is Void, setting one cell P to Tile(0)
\* gives P all 6 face flags and leaves every in-bounds neighbour of P with no
\* face flag.
C3_IsolatedInsert ==
    AllVoid(voxel_data) =>
        \A p \in InBounds(size) :
            LET done == After(voxel_data, p, Tile(0))
            IN  /\ FlagCount(Cell(done, p).faces) = 6
                /\ \A q \in InBoundsNeighbours(p) : FlagCount(Cell(done, q).faces) = 0

----------------------------------------------------------------------------
(* C4 *)

\* C4: for every reachable state, every in-bounds position p and every valid
\* voxel v, set_voxel(p, v) twice in a row leaves the same voxels and face
\* flags in every cell as set_voxel(p, v) once.
C4_SetTwiceIsSetOnce ==
    \A p \in InBounds(size), v \in ValidVoxels :
        LET once == After(voxel_data, p, v)
        IN  After(once, p, v) = once

\* a call of set_voxel has just written again what the cell already held,
\* next to an occupied neighbour
C4_Witness ==
    /\ LastSetOk
    /\ last.result.value = last.args[2]
    /\ IsTile(last.args[2])
    /\ \E q \in InBoundsNeighbours(last.args[1]) : IsTile(Cell(voxel_data, q).voxel)

----------------------------------------------------------------------------
(* C5 *)

Centre == Offset3d(0, 0, 0)
East == Offset3d(1, 0, 0)

\* the fresh scenario world with only the centre cell (the cell of index 4)
\* set to Tile(0), all of its six flags set
CentreOnly ==
    [i \in 0..(Volume(ScenarioSize) - 1) |->
        IF i = 4 THEN [voxel |-> Tile(0), faces |-> 63] ELSE VoxelDataDefault]

\* the scenario world after the centre cell and then its +X neighbour are set
CentreAndEast == After(CentreOnly, East, Tile(0))

\* this step is the call set_voxel(p, Tile(0)), and it succeeds
SetsTile0(p) ==
    /\ last'.op = "set_voxel"
    /\ last'.args = <<p, Tile(0)>>
    /\ last'.result.kind = "Ok"

\* C5: in a fresh world of size (3,1,3) with max_tiles = 1, after
\* set_voxel((0,0,0), Tile(0)) the cell has 6 exposed faces and generate_mesh
\* emits 36 vertices; after then set_voxel((1,0,0), Tile(0)) the +X flag of
\* (0,0,0) and the -X flag of (1,0,0) are clear, each of the two cells has 5
\* exposed faces, and generate_mesh emits 60 vertices.
C5_EndToEnd ==
    [][ /\ (voxel_data = NewVoxelData(ScenarioSize) /\ SetsTile0(Centre))
            => voxel_data' = CentreOnly
        /\ (voxel_data = CentreOnly /\ last'.op = "generate_mesh")
            => Len(mesh_vertices') = 36
        /\ (voxel_data = CentreOnly /\ SetsTile0(East))
            => /\ ~Flag(voxel_data', Centre, "PosX")
               /\ ~Flag(voxel_data', East, "NegX")
               /\ FlagCount(Cell(voxel_data', Centre).faces) = 5
               /\ FlagCount(Cell(voxel_data', East).faces) = 5
        /\ (voxel_data = CentreAndEast /\ last'.op = "generate_mesh")
            => Len(mesh_vertices') = 60
      ]_vars

\* the scenario has run to its end: the two cells are set and the mesh was
\* generated from them
C5_Witness ==
    /\ size = ScenarioSize
    /\ max_tiles = 1
    /\ ops = 4
    /\ voxel_data = CentreAndEast
    /\ last.op = "generate_mesh"
    /\ Len(mesh_vertices) = 60

----------------------------------------------------------------------------
(* C6 *)

\* the sum over the cells 0..n-1 that hold a tile of the number of their flags
RECURSIVE TileFlagSum(_, _)
TileFlagSum(data, n) ==
    IF n = 0
    THEN 0
    ELSE TileFlagSum(data, n - 1)
         + (IF IsTile(data[n - 1].voxel) THEN FlagCount(data[n - 1].faces) ELSE 0)

\* C6: after generate_mesh the number of vertices of the mesh is 6 times the
\* sum, over the cells whose voxel is a Tile, of the number of face flags set
\* on the cell; Void cells contribute nothing whatever flags they hold.
C6_MeshVertexCount ==
    last.op = "generate_mesh"
        => Len(mesh_vertices) = 6 * TileFlagSum(voxel_data, DataLen(voxel_data))

\* a mesh was generated from a world with a tile and a Void cell holding flags
C6_Witness ==
    /\ last.op = "generate_mesh"
    /\ Len(mesh_vertices) > 0
    /\ \E p \in InBounds(size) :
        ~IsTile(Cell(voxel_data, p).voxel) /\ Cell(voxel_data, p).faces # 0

----------------------------------------------------------------------------
(* C7 *)

\* C7: for every world size with positive dimensions and every index i below
\* width * height * depth, get_voxel_position(i) is a position p for which
\* get_voxel_index(p) returns i.
C7_IndexRoundTrip ==
    \A i \in 0..(Volume(size) - 1) :
        LET p == get_voxel_position(size, DataLen(voxel_data), i)
        IN  /\ p.kind = "Some"
            /\ get_voxel_index(size, origin_offset, p.position, overflow_checks)
                = [kind |-> "Some", index |-> i]

\* get_voxel_position was called with the last index of a world whose
\* dimensions are not all odd and not all even
C7_Witness ==
    /\ last.op = "get_voxel_position"
    /\ last.result.kind = "Some"
    /\ last.args[1] = Volume(size) - 1
    /\ Width(size) % 2 = 0
    /\ Height(size) % 2 = 1
    /\ Depth(size) > 1

----------------------------------------------------------------------------
(* C8 *)

\* C8: for every world size with positive dimensions and every in-bounds
\* position p, get_voxel_index(p) is an index i below width * height * depth
\* for which get_voxel_position(i) returns p, and distinct in-bounds positions
\* have distinct indices: no other in-bounds position has the index that a call
\* of get_voxel_index has just returned.
C8_PositionRoundTrip ==
    /\ \A p \in InBounds(size) :
        LET i == get_voxel_index(size, origin_offset, p, overflow_checks)
        IN  /\ InBox(p)
            /\ i.kind = "Some"
            /\ 0 <= i.index /\ i.index < Volume(size)
            /\ get_voxel_position(size, DataLen(voxel_data), i.index)
                = [kind |-> "Some", position |-> p]
    /\ (last.op = "get_voxel_index" /\ last.result.kind = "Some") =>
        \A q \in InBounds(size) \ {last.args[1]} :
            get_voxel_index(size, origin_offset, q, overflow_checks) # last.result

\* get_voxel_index was called with the last in-bounds position of a world with
\* an even and an odd dimension, and found an index
C8_Witness ==
    /\ last.op = "get_voxel_index"
    /\ last.result.kind = "Some"
    /\ last.result.index > 0
    /\ last.args[1] = Offset3d(Width(size) - 1 - (Width(size) \div 2),
                               Height(size) - 1 - (Height(size) \div 2),
                               Depth(size) - 1 - (Depth(size) \div 2))
    /\ Width(size) % 2 = 1 /\ Width(size) > 1
    /\ Depth(size) % 2 = 0

----------------------------------------------------------------------------
(* C9 *)

\* C9: a position is accepted by get_voxel and set_voxel exactly when
\* origin_offset <= p < origin_offset + size holds on every axis; for any
\* position outside that box get_voxel returns None and set_voxel fails with
\* PositionInvalid carrying that position.
C9_BoundsRejection ==
    /\ origin_offset = OriginOffset(size)
    /\ last.op = "get_voxel" =>
        /\ InBox(last.args[1]) <=> last.result.kind = "Some"
        /\ ~InBox(last.args[1]) => last.result = [kind |-> "None"]
    /\ last.op = "set_voxel" =>
        /\ InBox(last.args[1]) <=>
            ~(last.result.kind = "Err" /\ last.result.error = "PositionInvalid")
        /\ ~InBox(last.args[1]) =>
            last.result = [kind |-> "Err", error |-> "PositionInvalid",
                           payload |-> last.args[1]]

----------------------------------------------------------------------------
(* C10 *)

\* C10: set_voxel(p, Tile(id)) with p in bounds and id >= max_tiles fails with
\* TileIndexInvalid(id) and leaves the voxel stored at p unchanged.
C10_TileBoundCheck ==
    [][ ( /\ last'.op = "set_voxel"
          /\ InBox(last'.args[1])
          /\ IsTile(last'.args[2])
          /\ last'.args[2].index >= max_tiles )
        => /\ last'.result = [kind |-> "Err", error |-> "TileIndexInvalid",
                              payload |-> last'.args[2].index]
           /\ Cell(voxel_data', last'.args[1]).voxel
                = Cell(voxel_data, last'.args[1]).voxel
      ]_vars

\* set_voxel was called with a tile index that is not below max_tiles on a
\* cell that holds a tile, failed with TileIndexInvalid, and the tile is there
C10_Witness ==
    /\ last.op = "set_voxel"
    /\ last.result.kind = "Err"
    /\ last.result.error = "TileIndexInvalid"
    /\ last.result.payload = max_tiles
    /\ InBox(last.args[1])
    /\ IsTile(Cell(voxel_data, last.args[1]).voxel)

----------------------------------------------------------------------------
(* C11 *)

\* C11: a successful set_voxel(p, v) returns the voxel that was stored at p
\* immediately before the call, and afterwards get_voxel(p) returns v while
\* get_voxel(q) is unchanged for every other position q, after any sequence of
\* earlier edits.
C11_SetVoxelContract ==
    [][ (last'.op = "set_voxel" /\ last'.result.kind = "Ok")
        => LET p == last'.args[1]
               v == last'.args[2]
               before == World(size, origin_offset, max_tiles, voxel_data)
               after == World(size', origin_offset', max_tiles', voxel_data')
           IN  /\ get_voxel(before, p, overflow_checks)
                    = [kind |-> "Some", voxel |-> last'.result.value]
               /\ get_voxel(after, p, overflow_checks)
                    = [kind |-> "Some", voxel |-> v]
               /\ \A q \in Positions(size) \ {p} :
                    get_voxel(after, q, overflow_checks)
                        = get_voxel(before, q, overflow_checks)
      ]_vars

\* after earlier edits, set_voxel has replaced a tile by another voxel and
\* returned the tile, while another cell holds a tile
C11_Witness ==
    /\ LastSetOk
    /\ ops >= 3
    /\ IsTile(last.result.value)
    /\ last.args[2] # last.result.value
    /\ Cell(voxel_data, last.args[1]).voxel = last.args[2]
    /\ \E q \in InBounds(size) \ {last.args[1]} : IsTile(Cell(voxel_data, q).voxel)

----------------------------------------------------------------------------
(* C12 *)

\* this step is a call of set_voxel_texture with a tile index below max_tiles
ValidTextureCall ==
    /\ last'.op = "set_voxel_texture"
    /\ last'.args[2] = "Single"
    /\ 0 <= last'.args[1] /\ last'.args[1] < max_tiles

\* C12: for a valid tile index and the Single layout, set_voxel_texture fails
\* with DataInvalid when the pixel buffer is one byte shorter than
\* 4 * tileWidth * tileHeight (768 bytes for the 8x24 tile), and succeeds,
\* writing the region at horizontal offset tileWidth * tileIndex, when the
\* buffer has exactly that length.
C12_AtlasWriteBounds ==
    [][ /\ (ValidTextureCall /\ last'.args[3].len = 768 - 1)
            => /\ last'.result = [kind |-> "Err", error |-> "DataInvalid"]
               /\ texture' = texture
        /\ (ValidTextureCall /\ last'.args[3].len = 768)
            => /\ last'.result = [kind |-> "Ok"]
               /\ texture'.size = texture.size
               /\ texture'.writes =
                    Append(texture.writes,
                           [origin |-> Offset3d(8 * last'.args[1], 0, 0),
                            size |-> Extent3d(8, 24, 1),
                            pixels |-> last'.args[3]])
      ]_vars

\* a buffer of exactly 768 bytes was written for tile 1 after an earlier write
C12_Witness ==
    /\ last.op = "set_voxel_texture"
    /\ last.result.kind = "Ok"
    /\ last.args[1] = 1
    /\ last.args[3].len = 768
    /\ Len(texture.writes) >= 2
    /\ texture.writes[Len(texture.writes)].origin.x = 8

----------------------------------------------------------------------------
(* C13 *)

\* C13: set_voxel_texture with tileIndex >= max_tiles fails with
\* TileIndexInvalid(tileIndex) for every pixel buffer (the tile check precedes
\* the buffer-size check) and performs no texture write.
C13_TileCheckFirst ==
    [][ ( /\ last'.op = "set_voxel_texture"
          /\ (last'.args[1] >= max_tiles \/ last'.args[1] = U32_MAX) )
        => /\ last'.result = [kind |-> "Err", error |-> "TileIndexInvalid",
                              payload |-> last'.args[1]]
           /\ texture' = texture
      ]_vars

\* set_voxel_texture was called with tile index max_tiles and a buffer too
\* short for a tile, failed with TileIndexInvalid, and the write made before
\* it is all the texture holds
C13_Witness ==
    /\ last.op = "set_voxel_texture"
    /\ last.args[1] = max_tiles
    /\ last.args[3].len < 768
    /\ last.result.kind = "Err"
    /\ last.result.error = "TileIndexInvalid"
    /\ Len(texture.writes) = 1

----------------------------------------------------------------------------
(* C14 *)

\* origin + extent is above the size of the texture on an axis, for u32 values
Exceeds(origin, extent, limit) ==
    U32Lt(limit, origin) \/ U32Lt(limit - origin, extent)

\* what a call of Texture::write is to return
WriteOutcome(tex, origin, extent, pixels) ==
    LET limit == Texture_size(tex)
    IN  IF extent.width = 0 \/ extent.height = 0 \/ extent.depth = 0
        THEN [kind |-> "Err", error |-> "SizeInvalid"]
        ELSE IF \/ Exceeds(origin.x, extent.width, limit.width)
                \/ Exceeds(origin.y, extent.height, limit.height)
                \/ Exceeds(origin.z, extent.depth, limit.depth)
        THEN [kind |-> "Err", error |-> "OriginInvalid"]
        ELSE IF pixels.len < 4 * extent.width * extent.height * extent.depth
        THEN [kind |-> "Err", error |-> "PixelsInvalid"]
        ELSE [kind |-> "Ok"]

\* C14: Texture::write(origin, extent, pixels) fails with SizeInvalid when any
\* extent dimension is 0; otherwise fails with OriginInvalid when
\* origin + extent exceeds the texture size on any axis; otherwise fails with
\* PixelsInvalid when pixels.len() < bytesPerPixel * width * height * depth;
\* otherwise succeeds.  The checks apply in that order, and no texture write is
\* issued on any failure.
C14_WriteChecks ==
    [][ last'.op = "texture_write"
        => /\ last'.result = WriteOutcome(texture, last'.args[1], last'.args[2],
                                          last'.args[3])
           /\ last'.result.kind # "Ok" => texture' = texture
      ]_vars

----------------------------------------------------------------------------
(* C15 *)

\* C15: creating a mesh from an empty vertex list fails with the mesh error
\* VerticesInvalid, while creating a mesh from a non-empty vertex list
\* succeeds and the mesh can then be mutated and flushed.
C15_EmptyMeshRejected ==
    /\ last.op = "create_mesh" =>
        IF Len(last.args[1]) = 0
        THEN last.result = [kind |-> "Err", error |-> "Mesh",
                            payload |-> "VerticesInvalid"]
        ELSE last.result.kind = "Ok" /\ mesh_vertices = last.args[1]
    /\ last.op \in {"set_vertex_color", "flush"} => last.result.kind = "Ok"

----------------------------------------------------------------------------
(* C16 *)

\* C16: for every position whose coordinates are arbitrary 32-bit signed
\* integers, including values near i32::MAX and i32::MIN, get_voxel and
\* set_voxel return a result value (None / PositionInvalid when out of range)
\* and the computation position - origin_offset never overflows the 32-bit
\* signed range.
C16_NoOverflow ==
    last.op \in {"get_voxel", "set_voxel"} =>
        LET position == last.args[1]
        IN  /\ last.result.kind \in {"Some", "None", "Ok", "Err"}
            /\ ~InBox(position) =>
                \/ last.result = [kind |-> "None"]
                \/ last.result = [kind |-> "Err", error |-> "PositionInvalid",
                                  payload |-> position]
            /\ ~SubOverflows(position.x, origin_offset.x)
            /\ ~SubOverflows(position.y, origin_offset.y)
            /\ ~SubOverflows(position.z, origin_offset.z)

----------------------------------------------------------------------------
(* C17 *)

\* C17: generate_mesh fully replaces the mesh's vertex list: its result
\* depends only on the current voxel store, so calling generate_mesh twice
\* with no edit in between yields the same vertex list as calling it once, and
\* no vertex from an earlier generation survives.
C17_MeshReplaced ==
    LET staging == generate_mesh(world, overflow_checks)
        once == replace_vertices(mesh_vertices, staging)
        twice == replace_vertices(once, staging)
    IN  /\ once = staging
        /\ twice = once
        /\ last.op = "generate_mesh" => mesh_vertices = staging

\* the mesh holds the vertices of an earlier generation and the store, edited
\* since, gives another list that is not empty: the next generation has
\* vertices to drop
C17_Witness ==
    /\ last.op = "set_voxel"
    /\ Len(mesh_vertices) > 0
    /\ Len(generate_mesh(world, overflow_checks)) > 0
    /\ \E k \in 1..Len(mesh_vertices) :
        \A j \in 1..Len(generate_mesh(world, overflow_checks)) :
            mesh_vertices[k] # generate_mesh(world, overflow_checks)[j]

----------------------------------------------------------------------------
(* C18 *)

\* C18: in any interleaving of set_voxel, set_voxel_texture and generate_mesh
\* calls, the mesh's vertex list is empty before the first generate_mesh and
\* otherwise equals what generate_mesh produced from the voxel store as it was
\* at the most recent generate_mesh call; set_voxel (successful or failed)
\* never changes the mesh.  That is: the list is empty at the start, a
\* generate_mesh step sets it to what the store of that moment gives, and
\* every other step leaves it as it is.
C18_MeshOnDemand ==
    /\ mesh_vertices = <<>>
    /\ [][ /\ last'.op = "generate_mesh"
               => mesh_vertices' = generate_mesh(world, overflow_checks)
           /\ last'.op \in {"set_voxel", "set_voxel_texture"}
               => mesh_vertices' = mesh_vertices
         ]_vars

\* after a generation that gave vertices, a set_voxel call has emptied the
\* world and the mesh still holds the vertices
C18_Witness ==
    /\ LastSetOk
    /\ AllVoid(voxel_data)
    /\ Len(mesh_vertices) > 0
    /\ Len(texture.writes) = 0

----------------------------------------------------------------------------
(* C19 *)

\* C19: after any sequence of set_voxel calls, every cell whose voxel is Void
\* has no face flag set.
C19_VoidCellsUnflagged ==
    \A p \in InBounds(size) :
        ~IsTile(Cell(voxel_data, p).voxel) => Cell(voxel_data, p).faces = FacesEmpty

----------------------------------------------------------------------------
(* C20 *)

\* the loop over the faces of set_voxel with the faces taken in every order:
\* from each store reached with some faces done, each face not yet done is
\* taken next.  Gives what the loop can end with: the store and whether it
\* panicked.
RECURSIVE set_faces_any_order(_, _, _, _, _, _)
set_faces_any_order(w, reached, target_index, position, voxel, checks) ==
    IF \A r \in reached : r.done = AllFaces
    THEN {[data |-> r.data, panic |-> r.panic] : r \in reached}
    ELSE set_faces_any_order(w,
            UNION {IF r.panic
                   THEN {[r EXCEPT !.done = AllFaces]}
                   ELSE {LET step == set_face(w, r.data, target_index, position,
                                              voxel, face, checks)
                         IN  [done |-> r.done \cup {face}, data |-> step.data,
                              panic |-> step.panic] : face \in AllFaces \ r.done}
                   : r \in reached},
            target_index, position, voxel, checks)

\* what a call of set_voxel, at an in-bounds position and with a valid voxel,
\* can end with when its loop takes the faces in any order
AfterInAnyOrder(data, p, v) ==
    LET w == World(size, origin_offset, max_tiles, data)
        target_index == get_voxel_index(size, origin_offset, p,
                                        overflow_checks).index
    IN  set_faces_any_order(w,
            {[done |-> {}, data |-> store_voxel(data, target_index, v),
              panic |-> FALSE]},
            target_index, p, v, overflow_checks)

\* C20: within one set_voxel call the order in which the six directions are
\* processed does not affect the result: in every reachable state, for every
\* in-bounds target cell and every valid new value, every permutation of the
\* direction order ends with the store that the call yields, the face flags
\* of every cell included.
C20_OrderIrrelevant ==
    \A p \in InBounds(size), v \in ValidVoxels :
        AfterInAnyOrder(voxel_data, p, v)
            = {[data |-> After(voxel_data, p, v), panic |-> FALSE]}

\* a state where a call changes flags of the target cell and of a neighbour
\* of it, whatever the order of the faces: the flags are written by the
\* iterations of more than one face, on more than one cell
C20_Witness ==
    /\ LastSetOk
    /\ \E p \in InBounds(size) :
        \A r \in AfterInAnyOrder(voxel_data, p, Tile(0)) :
            /\ FlagCount(Cell(r.data, p).faces) > FlagCount(Cell(voxel_data, p).faces) + 1
            /\ \E q \in InBoundsNeighbours(p) :
                  Cell(r.data, q).faces # Cell(voxel_data, q).faces

----------------------------------------------------------------------------
(* C21 *)

\* a store that differs from the given one in the voxel held at p only
Twin(data, p, u) ==
    [data EXCEPT ![get_voxel_index(size, origin_offset, p,
                                   overflow_checks).index].voxel = u]

\* C21: the face-flag update of set_voxel(P, v) does not depend on what P held
\* before: two worlds that are identical except for the voxel value stored at
\* P end with identical voxel values and face flags in every cell after the
\* same successful set_voxel(P, v).
C21_OldVoxelIrrelevant ==
    \A p \in InBounds(size), v \in ValidVoxels :
        LET after == After(voxel_data, p, v)
        IN  \A u \in ValidVoxels : After(Twin(voxel_data, p, u), p, v) = after

\* a cell holds a tile next to another tile: a call that sets it to Void
\* changes flags, and its twin holds Void at that cell
C21_Witness ==
    /\ LastSetOk
    /\ \E p \in InBounds(size) :
        /\ IsTile(Cell(voxel_data, p).voxel)
        /\ \E q \in InBoundsNeighbours(p) : IsTile(Cell(voxel_data, q).voxel)
        /\ Twin(voxel_data, p, Void) # voxel_data
        /\ After(voxel_data, p, Void) # Twin(voxel_data, p, Void)

----------------------------------------------------------------------------
(* C22 *)

\* two masks agree on every flag but the one of a face
SameBut(before, after, face) ==
    \A f \in AllFaces \ {face} :
        FacesContains(before, FacesFrom(f)) = FacesContains(after, FacesFrom(f))

\* what a successful set_voxel(P, v) may change between two stores: the voxel
\* of P, the flags of P, and on the neighbour of P in a direction the one flag
\* of the opposite direction
FrameOf(before, after, P) ==
    \A q \in InBounds(size) :
        /\ q # P => Cell(after, q).voxel = Cell(before, q).voxel
        /\ (q # P /\ q \notin InBoundsNeighbours(P))
                => Cell(after, q).faces = Cell(before, q).faces
        /\ \A f \in AllFaces :
                (q # P /\ q = Neighbour(P, f))
                => SameBut(Cell(before, q).faces, Cell(after, q).faces, opposite(f))

\* C22: a successful set_voxel(P, v) changes the voxel value of P only, and
\* changes face flags only on P and on the (at most six) in-bounds cells
\* adjacent to P; on a neighbour it can change only the single flag facing P.
\* Every other cell's voxel and flags are unchanged.
C22_SetVoxelFrame ==
    [][ (last'.op = "set_voxel" /\ last'.result.kind = "Ok")
            => /\ Cardinality(InBoundsNeighbours(last'.args[1])) <= 6
               /\ FrameOf(voxel_data, voxel_data', last'.args[1])
      ]_vars

\* a successful call has changed a flag of a neighbour of its target, in a
\* world that has a cell which is neither the target nor a neighbour of it
C22_Witness ==
    /\ LastSetOk
    /\ \E q \in InBoundsNeighbours(last.args[1]) :
          IsTile(Cell(voxel_data, q).voxel) /\ IsTile(Cell(voxel_data, last.args[1]).voxel)
          /\ FlagCount(Cell(voxel_data, q).faces) < 5
    /\ \E q \in InBounds(size) :
          q # last.args[1] /\ q \notin InBoundsNeighbours(last.args[1])

----------------------------------------------------------------------------
(* C23 *)

\* the fixed order of the faces: +X, -X, +Y, -Y, +Z, -Z
FaceRank(face) ==
    CASE face = "PosX" -> 0 [] face = "NegX" -> 1 [] face = "PosY" -> 2
      [] face = "NegY" -> 3 [] face = "PosZ" -> 4 [] face = "NegZ" -> 5

\* the exposed faces of the occupied cells of storage index below k, each as
\* <<storage index, face>>
ExposedBelow(k) ==
    {t \in (0..(k - 1)) \X AllFaces :
        /\ IsTile(voxel_data[t[1]].voxel)
        /\ FacesContains(voxel_data[t[1]].faces, FacesFrom(t[2]))}

\* the exposed faces that come ahead of one, by storage index and then by
\* the order of the faces
Ahead(t, k) ==
    {u \in ExposedBelow(k) :
        u[1] < t[1] \/ (u[1] = t[1] /\ FaceRank(u[2]) < FaceRank(t[2]))}

\* the staging list holds, for the cells of storage index below k, 6 vertices
\* per exposed face, cell after cell by storage index and face after face in
\* the fixed order
EmittedInOrder(staging, k) ==
    /\ Len(staging) = 6 * Cardinality(ExposedBelow(k))
    /\ \A t \in ExposedBelow(k) :
        LET start == 6 * Cardinality(Ahead(t, k))
        IN  SubSeq(staging, start + 1, start + 6)
                = face_vertices(t[2],
                      get_voxel_position(size, DataLen(voxel_data), t[1]).position,
                      voxel_data[t[1]].voxel.index, max_tiles)

\* the scan so far has visited the cells of storage index 0 to index - 1, each
\* once and in increasing order, and emitted their faces in order; a scan
\* that has ended has visited every cell and handed its list to the mesh
ScanInOrder ==
    last.op = "generate_mesh" =>
        /\ iter.index <= DataLen(voxel_data)
        /\ iter.visited = [i \in 1..iter.index |-> i - 1]
        /\ EmittedInOrder(iter.staging, iter.index)
        /\ ~iter.running =>
            /\ iter.index = Width(size) * Height(size) * Depth(size)
            /\ mesh_vertices = iter.staging

\* C23: generate_mesh always terminates, and its scan visits every cell of
\* the world exactly once in increasing storage-index order (index 0 to
\* width*height*depth - 1), emitting each cell's exposed faces in the fixed
\* order +X, -X, +Y, -Y, +Z, -Z with 6 vertices per face.
C23_ScanTerminatesInOrder ==
    /\ []ScanInOrder
    /\ iter.running ~> ~iter.running

\* a scan has ended on a world with two occupied cells, the one of the higher
\* storage index with more than one exposed face
C23_Witness ==
    /\ last.op = "generate_mesh"
    /\ ~iter.running
    /\ Len(iter.visited) >= 4
    /\ \E t, u \in ExposedBelow(iter.index) :
          /\ t[1] < u[1]
          /\ \E x \in ExposedBelow(iter.index) : x[1] = u[1] /\ x[2] # u[2]

----------------------------------------------------------------------------
(* C24 *)

\* C24: no visible face is ever missing: after any sequence of set_voxel
\* calls (Void and Tile writes in any order, including removals and
\* re-insertions), every occupied cell has its face flag set in every
\* direction whose neighbour is Void or out of bounds.
C24_NoFaceMissing ==
    \A p \in InBounds(size), f \in AllFaces :
        (IsTile(Cell(voxel_data, p).voxel) /\ Open(voxel_data, p, f))
            => Flag(voxel_data, p, f)

\* a tile has been removed from beside a tile that stays: the face of the one
\* that stays, hidden before, is visible again
C24_Witness ==
    /\ LastSetOk
    /\ last.args[2] = Void
    /\ IsTile(last.result.value)
    /\ \E q \in InBoundsNeighbours(last.args[1]) : IsTile(Cell(voxel_data, q).voxel)

----------------------------------------------------------------------------
(* C25 *)

\* C25: in any history that starts from a freshly constructed world and
\* contains only Tile writes (no set_voxel with Void, cells may be written or
\* re-tiled any number of times in any order), the face flag D of every
\* occupied cell is set if and only if its neighbour in direction D is Void or
\* out of bounds, and every Void cell has no flag set.
C25_TileOnlyExact ==
    /\ FaceExposure(voxel_data)
    /\ \A p \in InBounds(size) :
        ~IsTile(Cell(voxel_data, p).voxel) => Cell(voxel_data, p).faces = FacesEmpty

\* a tile has been written again beside another tile, with a Void cell left
\* in the world
C25_Witness ==
    /\ LastSetOk
    /\ IsTile(last.result.value)
    /\ \E q \in InBoundsNeighbours(last.args[1]) : IsTile(Cell(voxel_data, q).voxel)
    /\ \E q \in InBounds(size) : ~IsTile(Cell(voxel_data, q).voxel)

----------------------------------------------------------------------------
(* C26 *)

\* C26: after any sequence of successful and failed set_voxel calls, the
\* voxel store still has exactly width*height*depth entries and every stored
\* voxel is either Void or Tile(id) with id < max_tiles.
C26_StoreWellFormed ==
    /\ DOMAIN voxel_data = 0..(Width(size) * Height(size) * Depth(size) - 1)
    /\ DataLen(voxel_data) = Width(size) * Height(size) * Depth(size)
    /\ \A i \in DOMAIN voxel_data :
        \/ voxel_data[i].voxel = Void
        \/ /\ IsTile(voxel_data[i].voxel)
           /\ voxel_data[i].voxel.index >= 0
           /\ voxel_data[i].voxel.index < max_tiles

\* a call has failed on a world that holds a tile stored by an earlier call
C26_Witness ==
    /\ last.op = "set_voxel"
    /\ last.result.kind = "Err"
    /\ \E i \in DOMAIN voxel_data : IsTile(voxel_data[i].voxel)
    /\ \E i \in DOMAIN voxel_data : ~IsTile(voxel_data[i].voxel)

----------------------------------------------------------------------------
(* C27 *)

\* C27: a set_voxel call that fails, with PositionInvalid or with
\* TileIndexInvalid, leaves the entire world unchanged: no voxel value and no
\* face flag of any cell (target or neighbours) differs from before the call;
\* when both the position and the tile id are invalid the error reported is
\* PositionInvalid.
C27_FailedSetVoxel ==
    [][ last'.op = "set_voxel"
        => LET p == last'.args[1]
               v == last'.args[2]
           IN  /\ (/\ last'.result.kind = "Err"
                   /\ last'.result.error \in {"PositionInvalid", "TileIndexInvalid"})
                    => /\ voxel_data' = voxel_data
                       /\ mesh_vertices' = mesh_vertices
                       /\ texture' = texture
               /\ (~InBox(p) /\ IsTile(v) /\ v.index >= max_tiles)
                    => last'.result = [kind |-> "Err", error |-> "PositionInvalid",
                                       payload |-> p]
      ]_vars

----------------------------------------------------------------------------
(* C28 *)

\* the region of a write lies inside the atlas of the world
InsideAtlas(write) ==
    /\ 0 <= write.origin.x /\ 0 <= write.origin.y /\ write.origin.z = 0
    /\ write.origin.x + write.size.width <= 8 * max_tiles
    /\ write.origin.y + write.size.height <= 24
    /\ write.size.depth = 1

\* two writes share no texel
Apart(a, b) ==
    \/ a.origin.x + a.size.width <= b.origin.x
    \/ b.origin.x + b.size.width <= a.origin.x
    \/ a.origin.y + a.size.height <= b.origin.y
    \/ b.origin.y + b.size.height <= a.origin.y

\* every write issued to the atlas lies inside it, and two writes are made
\* for the same tile or share no texel
AtlasRegions ==
    \A i, j \in 1..Len(texture.writes) :
        /\ InsideAtlas(texture.writes[i])
        /\ \/ texture.writes[i].origin = texture.writes[j].origin
           \/ Apart(texture.writes[i], texture.writes[j])

\* C28: for a world constructed with max_tiles >= 1, every set_voxel_texture
\* call with tileIndex < max_tiles and at least 768 pixel bytes succeeds: the
\* region it writes (origin x = 8*tileIndex, extent 8x24x1) always lies inside
\* the 8*max_tiles x 24 atlas, so none of the texture errors SizeInvalid,
\* OriginInvalid or PixelsInvalid can be returned, and regions of distinct
\* tile indices never overlap.
C28_AtlasWritesSucceed ==
    /\ []AtlasRegions
    /\ [][ (ValidTextureCall /\ last'.args[3].len >= 768)
            => /\ max_tiles >= 1
               /\ last'.result = [kind |-> "Ok"]
               /\ Len(texture'.writes) = Len(texture.writes) + 1
               /\ LET write == texture'.writes[Len(texture'.writes)]
                  IN  /\ write.origin = Offset3d(8 * last'.args[1], 0, 0)
                      /\ write.size = Extent3d(8, 24, 1)
          ]_vars

\* a buffer of more than 768 bytes has been written for the last tile of a
\* world of two tiles, after a write for the other tile
C28_Witness ==
    /\ last.op = "set_voxel_texture"
    /\ last.result.kind = "Ok"
    /\ last.args[1] = max_tiles - 1
    /\ last.args[3].len > 768
    /\ \E i \in 1..Len(texture.writes) :
          texture.writes[i].origin # texture.writes[Len(texture.writes)].origin

----------------------------------------------------------------------------
(* C29 *)

\* the regions of the layout recorded in buffer_info, each as (offset, size):
\* the vertices, then the index list of every submesh
Regions ==
    <<mesh_buffer_info.vertices_offset_size>> \o mesh_buffer_info.indices_offset_sizes

\* C29: after any sequence of growing and shrinking the mesh's vertex and
\* index lists interleaved with Mesh::flush calls, the allocated GPU buffer is
\* at least as large as the aligned size of the layout recorded in buffer_info
\* at the end of each flush, so a flush never writes vertices or indices past
\* the end of the buffer; submesh index regions start at 256-byte-aligned
\* offsets and do not overlap the vertex region or each other.
C29_BufferHoldsLayout ==
    /\ mesh_buffer.size >= mesh_buffer_info.aligned_size
    /\ \A k \in 1..Len(mesh_buffer.writes) :
        /\ mesh_buffer.writes[k].offset >= 0
        /\ mesh_buffer.writes[k].offset + mesh_buffer.writes[k].len <= mesh_buffer.size
    /\ last.op = "flush" =>
        /\ Len(mesh_buffer.writes) = 1 + Len(mesh_submeshes)
        /\ \A k \in 1..Len(Regions) :
              mesh_buffer.writes[k] = [offset |-> Regions[k].offset,
                                       len |-> Regions[k].size]
    /\ \A k \in 1..Len(mesh_buffer_info.indices_offset_sizes) :
          mesh_buffer_info.indices_offset_sizes[k].offset % 256 = 0
    /\ \A j, k \in 1..Len(Regions) :
          j < k => Regions[j].offset + Regions[j].size <= Regions[k].offset

\* a flush of a mesh with vertices and two submeshes that has shrunk since an
\* earlier flush: the buffer it keeps is larger than the layout needs
C29_Witness ==
    /\ last.op = "flush"
    /\ Len(mesh_submeshes) = 2
    /\ Len(mesh_vertices) > 0
    /\ mesh_buffer.size > mesh_buffer_info.aligned_size

----------------------------------------------------------------------------
(* C30 *)

\* the draw state queued at k has a registered pipeline and a registered
\* bind-group layout
Registered(r, k) ==
    /\ [material |-> r.draw_states[k].material,
        view_dimension |-> r.draw_states[k].view_dimension] \in r.pipelines
    /\ r.draw_states[k].view_dimension \in r.texture_bind_group_layouts

\* the number of draws of a draw command list
Draws(draw_commands) ==
    Cardinality({k \in 1..Len(draw_commands) :
                    draw_commands[k].command \in {"Draw", "DrawIndexed"}})

\* C30: Renderer::draw_mesh returns MaterialTexturesInvalid and queues
\* nothing when material_textures is empty or shorter than the mesh's submesh
\* list; for every other input (length >= 1 and >= number of submeshes,
\* indexed or not) it returns Ok and queues exactly one draw state per
\* material_textures entry, each with a registered pipeline and bind-group
\* layout, so that the following submit emits one draw per queued state and
\* leaves the queue empty.
C30_DrawMeshQueues ==
    [][ /\ last'.op = "draw_mesh"
            => LET n == Len(last'.args[2])
                   queued == Len(renderer.draw_states)
               IN  IF n = 0 \/ n < Len(mesh_submeshes)
                   THEN /\ last'.result = [kind |-> "Err",
                                           error |-> "MaterialTexturesInvalid"]
                        /\ renderer'.draw_states = renderer.draw_states
                   ELSE /\ last'.result = [kind |-> "Ok"]
                        /\ Len(renderer'.draw_states) = queued + n
                        /\ \A k \in 1..(queued + n) : Registered(renderer', k)
        /\ last'.op = "submit"
            => /\ last'.result.kind = "Ok"
               /\ Draws(last'.result.draw_commands) = Len(renderer.draw_states)
               /\ renderer'.draw_states = <<>>
      ]_vars

====
